---- MODULE Spec2Model ----
(***************************************************************************)
(* IntricatePointers: the ownership engine of Ref / WeakRef                *)
(* (IntricatePointers.hpp).  A Ref or WeakRef is a triple (m_Ptr,           *)
(* m_RefCount, m_Deleter) built on _RefBase; m_RefCount points to a heap   *)
(* allocated _AtomicRefCount holding the strong and the weak counter.      *)
(*                                                                         *)
(* Handles live in numbered slots (program variables); a slot is either    *)
(* not constructed / already destroyed (live = FALSE) or holds a handle.   *)
(* Heap objects and control blocks are numbered; a number is never reused  *)
(* after its delete, so a dangling reference stays recognisable.           *)
(***************************************************************************)
EXTENDS Integers, FiniteSets, Sequences, TLC

\* ---------------------------------------------------------------- bounds
MaxRefs == 2        \* Ref variables of the program
MaxWeaks == 2       \* WeakRef variables of the program
MaxObjs == 1        \* objects (and control blocks) ever allocated
Workers == 3        \* threads that copy and drop one Ref
Cycles == 2         \* copy+drop cycles of each of them
Droppers == 3       \* threads that each drop one handle of a family
Lockers == 2        \* threads that each promote an observer
MaxCastWeaks == 1   \* WeakRef variables of the programs that cast
MaxScopes == 2      \* Scope variables of the program
MaxScopeObjs == 2   \* objects ever allocated for Scopes
MaxCmpAddrs == 2    \* addresses and control blocks of the operands of a comparison
MaxUnsafes == 1     \* UnsafeRef variables of the program
MaxCount == 2       \* the count up to which UnsafeRef increments by hand

RefSlots == 1..MaxRefs
WeakSlots == 1..MaxWeaks
Addrs == 1..MaxObjs
Blocks == 1..MaxObjs
CastWeakSlots == 1..MaxCastWeaks
ScopeSlots == 1..MaxScopes
ScopeAddrs == 1..MaxScopeObjs
CmpAddrs == 1..MaxCmpAddrs
UnsafeSlots == 1..MaxUnsafes

\* nullptr, for m_Ptr and m_RefCount
NULL == 0
\* nullptr, for m_Deleter
NoDeleter == "nullptr"
\* the concrete types _DefaultDelete<_Ty2> is instantiated for
Types == {"ExampleClass"}
\* what a load from a deallocated _AtomicRefCount may yield
Garbage == {0, 1, 2}

VARIABLES
    refs,       \* Ref slot -> [live, ptr, rc, del]
    weaks,      \* WeakRef slot -> [live, ptr, rc, del]
    blk,        \* control block -> [st, strongs, weaks, frees]
    obj,        \* address -> [st, type, dels, by, cb]
    uaf,        \* a counter of a deallocated control block was accessed
    locked,     \* the Ref the last operation returned, if it was a call of Lock
    pc,         \* thread -> where it stands inside its current operation
    prog,       \* thread -> the operations it has still to perform
    scopes,     \* Scope slot -> [live, ptr, del]
    cmp,        \* the comparison under evaluation -> [op, left, right, res]
    unsafes,    \* UnsafeRef slot -> [live, ptr, rc, del]
    hb          \* what each thread and the strong counter have seen of the writes to the object

vars == <<refs, weaks, blk, obj, uaf, locked, pc, prog, scopes, cmp, unsafes, hb>>

\* ------------------------------------------------------------ the heap
\* The heap as one value, threaded through the operators below.
World == [blk |-> blk, obj |-> obj, uaf |-> uaf]

\* _AtomicRefCount: m_Strongs = 1, m_Weaks = 0
NewRefCount == [st |-> "live", strongs |-> 1, weaks |-> 0, frees |-> 0]

NoBlock == [st |-> "unalloc", strongs |-> 0, weaks |-> 0, frees |-> 0]

NoObject == [st |-> "unalloc", type |-> NoDeleter, dels |-> 0, by |-> NoDeleter, cb |-> NULL]

\* operator new: the lowest number not handed out yet
FreshAddr(w) == CHOOSE p \in Addrs : w.obj[p].st = "unalloc" /\ \A q \in Addrs : q < p => w.obj[q].st # "unalloc"
FreshBlock(w) == CHOOSE b \in Blocks : w.blk[b].st = "unalloc" /\ \A c \in Blocks : c < b => w.blk[c].st # "unalloc"
CanAlloc(w) == (\E p \in Addrs : w.obj[p].st = "unalloc") /\ (\E b \in Blocks : w.blk[b].st = "unalloc")

Allocated(w, b) == w.blk[b].st = "live"

\* Any access to the counters of a control block that was deleted.
Touch(w, b) == IF Allocated(w, b) THEN w ELSE [w EXCEPT !.uaf = TRUE]

\* uint32_t arithmetic is modulo 2^32; a counter is kept as the representative
\* in (-2^31, 2^31), so 0 - 1 is the all-ones value, written -1 here.
GetStrongs(w, b, g) == IF Allocated(w, b) THEN w.blk[b].strongs ELSE g
GetWeaks(w, b, g) == IF Allocated(w, b) THEN w.blk[b].weaks ELSE g

\* m_Weaks bumped where m_Strongs is meant
IncRef_OnWeaks(w, b, g) == IF Allocated(w, b) THEN [w EXCEPT !.blk[b].weaks = @ + 1] ELSE Touch(w, b)

\* fetch_add(1) + 1 and fetch_sub(1) - 1: the new value, and the heap after
IncRefValue(w, b, g) == GetStrongs(w, b, g) + 1
IncRef(w, b, g) == IF Allocated(w, b) THEN [w EXCEPT !.blk[b].strongs = @ + 1] ELSE Touch(w, b)


\* fetch_sub's own result, the value before the subtraction, taken for the new one
DecRefValue_Prior(w, b, g) == GetStrongs(w, b, g)

DecRefValue(w, b, g) == GetStrongs(w, b, g) - 1
DecRef(w, b, g) == IF Allocated(w, b) THEN [w EXCEPT !.blk[b].strongs = @ - 1] ELSE Touch(w, b)

IncWeakRefValue(w, b, g) == GetWeaks(w, b, g) + 1
IncWeakRef(w, b, g) == IF Allocated(w, b) THEN [w EXCEPT !.blk[b].weaks = @ + 1] ELSE Touch(w, b)

DecWeakRefValue(w, b, g) == GetWeaks(w, b, g) - 1
DecWeakRef(w, b, g) == IF Allocated(w, b) THEN [w EXCEPT !.blk[b].weaks = @ - 1] ELSE Touch(w, b)

\* delete m_RefCount
DeleteRefCount(w, b) == [w EXCEPT !.blk[b].st = "freed", !.blk[b].frees = @ + 1]

\* m_Deleter((void*)m_Ptr): delete static_cast<_Ty2*>(ptr), _Ty2 = d
_DefaultDelete(w, d, p) == [w EXCEPT !.obj[p].st = "destroyed", !.obj[p].dels = @ + 1, !.obj[p].by = d]

\* --------------------------------------------------------- _RefBase<_Ty>
Handle(p, b, d) == [live |-> TRUE, ptr |-> p, rc |-> b, del |-> d]
\* _RefBase(nullptr) and the default member initialisers
EmptyHandle == Handle(NULL, NULL, NoDeleter)
\* a slot that holds no object (before construction, after destruction)
NoHandle == [live |-> FALSE, ptr |-> NULL, rc |-> NULL, del |-> NoDeleter]

\* _Raw(): the stored m_Ptr; Valid(): Raw() != nullptr
_Raw(h) == h.ptr
Valid(h) == _Raw(h) # NULL

_RefCount(h, w, g) == IF h.rc # NULL THEN GetStrongs(w, h.rc, g) ELSE 0
_WeakRefCount(h, w, g) == IF h.rc # NULL THEN GetWeaks(w, h.rc, g) ELSE 0


\* the weak counter bumped where the strong one is meant
_IncRef_Weak(h, w, g) == [h |-> h, w |-> IF h.rc # NULL THEN IncWeakRef(w, h.rc, g) ELSE w]

\* The operators below return [h |-> the handle after, w |-> the heap after].
_IncRef(h, w, g) == [h |-> h, w |-> IF h.rc # NULL THEN IncRef(w, h.rc, g) ELSE w]

_IncWeakRef(h, w, g) == [h |-> h, w |-> IF h.rc # NULL THEN IncWeakRef(w, h.rc, g) ELSE w]


\* the control block deleted with the object, observers or not
_DecRef_NoWeakCheck(h, w, g) ==
    IF h.rc # NULL /\ DecRefValue(w, h.rc, g) = 0
    THEN LET w1 == DecRef(w, h.rc, g)
             w2 == IF h.ptr # NULL /\ h.del # NoDeleter THEN _DefaultDelete(w1, h.del, h.ptr) ELSE w1
         IN [h |-> [h EXCEPT !.ptr = NULL, !.rc = NULL], w |-> DeleteRefCount(w2, h.rc)]
    ELSE [h |-> h, w |-> IF h.rc # NULL THEN DecRef(w, h.rc, g) ELSE w]

_DecRef(h, w, g) ==
    IF h.rc # NULL /\ DecRefValue(w, h.rc, g) = 0
    THEN LET w1 == DecRef(w, h.rc, g)
             w2 == IF h.ptr # NULL /\ h.del # NoDeleter THEN _DefaultDelete(w1, h.del, h.ptr) ELSE w1
             h2 == [h EXCEPT !.ptr = NULL]
             w3 == Touch(w2, h.rc)
         IN IF GetWeaks(w2, h.rc, g) = 0
            THEN [h |-> [h2 EXCEPT !.rc = NULL], w |-> DeleteRefCount(w3, h.rc)]
            ELSE [h |-> h2, w |-> w3]
    ELSE [h |-> h, w |-> IF h.rc # NULL THEN DecRef(w, h.rc, g) ELSE w]


\* the control block deleted with the last observer, owners or not
_DecWeakRef_NoStrongCheck(h, w, g) ==
    IF h.rc # NULL /\ DecWeakRefValue(w, h.rc, g) = 0
    THEN [h |-> [h EXCEPT !.rc = NULL], w |-> DeleteRefCount(DecWeakRef(w, h.rc, g), h.rc)]
    ELSE [h |-> h, w |-> IF h.rc # NULL THEN DecWeakRef(w, h.rc, g) ELSE w]

_DecWeakRef(h, w, g) ==
    IF h.rc # NULL /\ DecWeakRefValue(w, h.rc, g) = 0
    THEN LET w1 == DecWeakRef(w, h.rc, g)
             w2 == Touch(w1, h.rc)
         IN IF GetStrongs(w1, h.rc, g) = 0
            THEN [h |-> [h EXCEPT !.rc = NULL], w |-> DeleteRefCount(w2, h.rc)]
            ELSE [h |-> h, w |-> w2]
    ELSE [h |-> h, w |-> IF h.rc # NULL THEN DecWeakRef(w, h.rc, g) ELSE w]

\* _ConstructFromRaw<_Ty2>(new _Ty2(...)): the pointer is never null here
_ConstructFromRaw(t, w) ==
    LET p == FreshAddr(w)
        b == FreshBlock(w)
    IN [h |-> Handle(p, b, t),
        w |-> [w EXCEPT !.obj[p] = [st |-> "live", type |-> t, dels |-> 0, by |-> NoDeleter, cb |-> b],
                        !.blk[b] = NewRefCount]]


\* the fields copied, the increment forgotten
_CopyConstructFrom_NoInc(ref, w, g) == [h |-> Handle(ref.ptr, ref.rc, ref.del), w |-> w]

\* the pointer and the deleter copied, the control block not shared
_CopyConstructFrom_Unshared(ref, w, g) == [h |-> Handle(ref.ptr, NULL, ref.del), w |-> w]

_CopyConstructFrom(ref, w, g) == _IncRef(Handle(ref.ptr, ref.rc, ref.del), w, g)


\* the observer counted as an owner
_WeaklyConstructFrom_Strong(ptr, w, g) == _IncRef(Handle(ptr.ptr, ptr.rc, ptr.del), w, g)

_WeaklyConstructFrom(ptr, w, g) == _IncWeakRef(Handle(ptr.ptr, ptr.rc, ptr.del), w, g)

\* the control block and the deleter taken over, the pointer left behind
_MoveConstructFrom_NoPtr(ptr) == Handle(NULL, ptr.rc, ptr.del)

\* the constructed handle; the source becomes EmptyHandle
_MoveConstructFrom(ptr) == Handle(ptr.ptr, ptr.rc, ptr.del)


\* promotion without the test for an object already deleted
_ConstructFromWeak_Unchecked(weak, w, g) == _IncRef(Handle(weak.ptr, weak.rc, weak.del), w, g)

_ConstructFromWeak(weak, w, g) ==
    LET w1 == IF weak.rc # NULL THEN Touch(w, weak.rc) ELSE w
    IN IF _RefCount(weak, w, g) = 0
       THEN [h |-> EmptyHandle, w |-> w1]
       ELSE _IncRef(Handle(weak.ptr, weak.rc, weak.del), w1, g)


\* the weak counter consulted where the strong one is meant
Expired_Weak(weak, w, g) == _WeakRefCount(weak, w, g) = 0

\* ------------------------------------------------------------ WeakRef<_Ty>
Expired(weak, w, g) == _RefCount(weak, w, g) = 0

Lock(weak, w, g) ==
    LET w1 == IF weak.rc # NULL THEN Touch(w, weak.rc) ELSE w
    IN IF Expired(weak, w, g)
       THEN [h |-> EmptyHandle, w |-> w1]
       ELSE _ConstructFromWeak(weak, w1, g)

\* ---------------------------------------------------------------- Init
Init ==
    /\ refs = [i \in RefSlots |-> NoHandle]
    /\ weaks = [j \in WeakSlots |-> NoHandle]
    /\ blk = [b \in Blocks |-> NoBlock]
    /\ obj = [p \in Addrs |-> NoObject]
    /\ uaf = FALSE
    /\ locked = NoHandle
    /\ pc = <<>>
    /\ prog = <<>>
    /\ scopes = <<>>
    /\ cmp = <<>>
    /\ unsafes = <<>>
    /\ hb = <<>>

\* A handle of the program references a control block that was deleted.
Dangling ==
    \E b \in Blocks :
        /\ blk[b].st = "freed"
        /\ \/ \E i \in DOMAIN refs : refs[i].live /\ refs[i].rc = b
           \/ \E j \in DOMAIN weaks : weaks[j].live /\ weaks[j].rc = b
           \/ \E u \in DOMAIN unsafes : unsafes[u].live /\ unsafes[u].rc = b

\* The values a load of a counter may yield in this state: the stored value
\* (0 stands for "as stored"), or anything once a dangling block can be read.
Reads == IF Dangling THEN Garbage ELSE {0}

SetWorld(w) == blk' = w.blk /\ obj' = w.obj /\ uaf' = w.uaf

\* ------------------------------------------------------- Ref operations
\* Ref<T> r = CreateRef<T>(...)
CreateRef(i) ==
    /\ ~refs[i].live
    /\ CanAlloc(World)
    /\ \E t \in Types :
         LET r == _ConstructFromRaw(t, World)
         IN /\ refs' = [refs EXCEPT ![i] = r.h]
            /\ SetWorld(r.w)
    /\ locked' = NoHandle
    /\ UNCHANGED <<weaks, pc, prog, scopes, cmp, unsafes, hb>>

\* Ref<T> r; Ref<T> r = nullptr
RefNull(i) ==
    /\ ~refs[i].live
    /\ refs' = [refs EXCEPT ![i] = EmptyHandle]
    /\ locked' = NoHandle
    /\ UNCHANGED <<weaks, blk, obj, uaf, pc, prog, scopes, cmp, unsafes, hb>>

\* Ref<T> r = other
RefCopy(i, k) ==
    /\ ~refs[i].live /\ refs[k].live
    /\ \E g \in Reads :
         LET r == _CopyConstructFrom(refs[k], World, g)
         IN /\ refs' = [refs EXCEPT ![i] = r.h]
            /\ SetWorld(r.w)
    /\ locked' = NoHandle
    /\ UNCHANGED <<weaks, pc, prog, scopes, cmp, unsafes, hb>>

\* Ref<T> r = std::move(other)
RefMove(i, k) ==
    /\ ~refs[i].live /\ refs[k].live
    /\ refs' = [refs EXCEPT ![i] = _MoveConstructFrom(refs[k]), ![k] = EmptyHandle]
    /\ locked' = NoHandle
    /\ UNCHANGED <<weaks, blk, obj, uaf, pc, prog, scopes, cmp, unsafes, hb>>

\* the end of r's scope
RefDtor(i) ==
    /\ refs[i].live
    /\ \E g \in Reads :
         LET r == _DecRef(refs[i], World, g)
         IN /\ refs' = [refs EXCEPT ![i] = NoHandle]
            /\ SetWorld(r.w)
    /\ locked' = NoHandle
    /\ UNCHANGED <<weaks, pc, prog, scopes, cmp, unsafes, hb>>

\* Ref(...).Swap(*this); the temporary, now holding the old fields, is destroyed
\* r = other
RefCopyAssign(i, k) ==
    /\ refs[i].live /\ refs[k].live
    /\ \E g \in Reads :
         LET c == _CopyConstructFrom(refs[k], World, g)
             d == _DecRef(refs[i], c.w, g)
         IN /\ refs' = [refs EXCEPT ![i] = c.h]
            /\ SetWorld(d.w)
    /\ locked' = NoHandle
    /\ UNCHANGED <<weaks, pc, prog, scopes, cmp, unsafes, hb>>

\* r = std::move(other)
RefMoveAssign(i, k) ==
    /\ refs[i].live /\ refs[k].live
    /\ \E g \in Reads :
         LET tmp == _MoveConstructFrom(refs[k])
             r1 == [refs EXCEPT ![k] = EmptyHandle]
             d == _DecRef(r1[i], World, g)
         IN /\ refs' = [r1 EXCEPT ![i] = tmp]
            /\ SetWorld(d.w)
    /\ locked' = NoHandle
    /\ UNCHANGED <<weaks, pc, prog, scopes, cmp, unsafes, hb>>

\* r = nullptr
RefAssignNull(i) ==
    /\ refs[i].live
    /\ \E g \in Reads :
         LET d == _DecRef(refs[i], World, g)
         IN /\ refs' = [refs EXCEPT ![i] = EmptyHandle]
            /\ SetWorld(d.w)
    /\ locked' = NoHandle
    /\ UNCHANGED <<weaks, pc, prog, scopes, cmp, unsafes, hb>>

\* r.Reset()
RefReset(i) ==
    /\ refs[i].live
    /\ \E g \in Reads :
         LET d == _DecRef(refs[i], World, g)
         IN /\ refs' = [refs EXCEPT ![i] = EmptyHandle]
            /\ SetWorld(d.w)
    /\ locked' = NoHandle
    /\ UNCHANGED <<weaks, pc, prog, scopes, cmp, unsafes, hb>>

\* r.Reset(new T(...))
RefResetRaw(i) ==
    /\ refs[i].live
    /\ CanAlloc(World)
    /\ \E g \in Reads, t \in Types :
         LET c == _ConstructFromRaw(t, World)
             d == _DecRef(refs[i], c.w, g)
         IN /\ refs' = [refs EXCEPT ![i] = c.h]
            /\ SetWorld(d.w)
    /\ locked' = NoHandle
    /\ UNCHANGED <<weaks, pc, prog, scopes, cmp, unsafes, hb>>

\* Ref<T> r(weak)
RefFromWeak(i, j) ==
    /\ ~refs[i].live /\ weaks[j].live
    /\ \E g \in Reads :
         LET r == _ConstructFromWeak(weaks[j], World, g)
         IN /\ refs' = [refs EXCEPT ![i] = r.h]
            /\ SetWorld(r.w)
    /\ locked' = NoHandle
    /\ UNCHANGED <<weaks, pc, prog, scopes, cmp, unsafes, hb>>

\* Ref<T> r = weak.Lock()
RefLock(i, j) ==
    /\ ~refs[i].live /\ weaks[j].live
    /\ \E g \in Reads :
         LET r == Lock(weaks[j], World, g)
         IN /\ refs' = [refs EXCEPT ![i] = r.h]
            /\ locked' = r.h
            /\ SetWorld(r.w)
    /\ UNCHANGED <<weaks, pc, prog, scopes, cmp, unsafes, hb>>

\* --------------------------------------------------- WeakRef operations
\* WeakRef<T> o = ref
WeakFromRef(j, i) ==
    /\ ~weaks[j].live /\ refs[i].live
    /\ \E g \in Reads :
         LET r == _WeaklyConstructFrom(refs[i], World, g)
         IN /\ weaks' = [weaks EXCEPT ![j] = r.h]
            /\ SetWorld(r.w)
    /\ locked' = NoHandle
    /\ UNCHANGED <<refs, pc, prog, scopes, cmp, unsafes, hb>>

\* WeakRef<T> o; WeakRef<T> o = nullptr
WeakNull(j) ==
    /\ ~weaks[j].live
    /\ weaks' = [weaks EXCEPT ![j] = EmptyHandle]
    /\ locked' = NoHandle
    /\ UNCHANGED <<refs, blk, obj, uaf, pc, prog, scopes, cmp, unsafes, hb>>

\* WeakRef<T> o = other
WeakCopy(j, k) ==
    /\ ~weaks[j].live /\ weaks[k].live
    /\ \E g \in Reads :
         LET r == _WeaklyConstructFrom(weaks[k], World, g)
         IN /\ weaks' = [weaks EXCEPT ![j] = r.h]
            /\ SetWorld(r.w)
    /\ locked' = NoHandle
    /\ UNCHANGED <<refs, pc, prog, scopes, cmp, unsafes, hb>>

\* WeakRef<T> o = std::move(other)
WeakMove(j, k) ==
    /\ ~weaks[j].live /\ weaks[k].live
    /\ weaks' = [weaks EXCEPT ![j] = _MoveConstructFrom(weaks[k]), ![k] = EmptyHandle]
    /\ locked' = NoHandle
    /\ UNCHANGED <<refs, blk, obj, uaf, pc, prog, scopes, cmp, unsafes, hb>>

\* the end of o's scope
WeakDtor(j) ==
    /\ weaks[j].live
    /\ \E g \in Reads :
         LET r == _DecWeakRef(weaks[j], World, g)
         IN /\ weaks' = [weaks EXCEPT ![j] = NoHandle]
            /\ SetWorld(r.w)
    /\ locked' = NoHandle
    /\ UNCHANGED <<refs, pc, prog, scopes, cmp, unsafes, hb>>

\* o = other
WeakCopyAssign(j, k) ==
    /\ weaks[j].live /\ weaks[k].live
    /\ \E g \in Reads :
         LET c == _WeaklyConstructFrom(weaks[k], World, g)
             d == _DecWeakRef(weaks[j], c.w, g)
         IN /\ weaks' = [weaks EXCEPT ![j] = c.h]
            /\ SetWorld(d.w)
    /\ locked' = NoHandle
    /\ UNCHANGED <<refs, pc, prog, scopes, cmp, unsafes, hb>>

\* o = std::move(other)
WeakMoveAssign(j, k) ==
    /\ weaks[j].live /\ weaks[k].live
    /\ \E g \in Reads :
         LET tmp == _MoveConstructFrom(weaks[k])
             r1 == [weaks EXCEPT ![k] = EmptyHandle]
             d == _DecWeakRef(r1[j], World, g)
         IN /\ weaks' = [r1 EXCEPT ![j] = tmp]
            /\ SetWorld(d.w)
    /\ locked' = NoHandle
    /\ UNCHANGED <<refs, pc, prog, scopes, cmp, unsafes, hb>>

\* o = ref
WeakAssignRef(j, i) ==
    /\ weaks[j].live /\ refs[i].live
    /\ \E g \in Reads :
         LET c == _WeaklyConstructFrom(refs[i], World, g)
             d == _DecWeakRef(weaks[j], c.w, g)
         IN /\ weaks' = [weaks EXCEPT ![j] = c.h]
            /\ SetWorld(d.w)
    /\ locked' = NoHandle
    /\ UNCHANGED <<refs, pc, prog, scopes, cmp, unsafes, hb>>

\* o = nullptr
WeakAssignNull(j) ==
    /\ weaks[j].live
    /\ \E g \in Reads :
         LET d == _DecWeakRef(weaks[j], World, g)
         IN /\ weaks' = [weaks EXCEPT ![j] = EmptyHandle]
            /\ SetWorld(d.w)
    /\ locked' = NoHandle
    /\ UNCHANGED <<refs, pc, prog, scopes, cmp, unsafes, hb>>

\* o.Reset()
WeakReset(j) ==
    /\ weaks[j].live
    /\ \E g \in Reads :
         LET d == _DecWeakRef(weaks[j], World, g)
         IN /\ weaks' = [weaks EXCEPT ![j] = EmptyHandle]
            /\ SetWorld(d.w)
    /\ locked' = NoHandle
    /\ UNCHANGED <<refs, pc, prog, scopes, cmp, unsafes, hb>>

\* ------------------------------------------------------------------ Spec
\* The automatic protocol: every Ref and WeakRef operation except Release,
\* Swap, the aliasing constructors and the casts.
Next ==
    \/ \E i \in RefSlots : CreateRef(i)
    \/ \E i \in RefSlots : RefNull(i)
    \/ \E i, k \in RefSlots : RefCopy(i, k)
    \/ \E i, k \in RefSlots : RefMove(i, k)
    \/ \E i \in RefSlots : RefDtor(i)
    \/ \E i, k \in RefSlots : RefCopyAssign(i, k)
    \/ \E i, k \in RefSlots : RefMoveAssign(i, k)
    \/ \E i \in RefSlots : RefAssignNull(i)
    \/ \E i \in RefSlots : RefReset(i)
    \/ \E i \in RefSlots : RefResetRaw(i)
    \/ \E i \in RefSlots, j \in WeakSlots : RefFromWeak(i, j)
    \/ \E i \in RefSlots, j \in WeakSlots : RefLock(i, j)
    \/ \E j \in WeakSlots, i \in RefSlots : WeakFromRef(j, i)
    \/ \E j \in WeakSlots : WeakNull(j)
    \/ \E j, k \in WeakSlots : WeakCopy(j, k)
    \/ \E j, k \in WeakSlots : WeakMove(j, k)
    \/ \E j \in WeakSlots : WeakDtor(j)
    \/ \E j, k \in WeakSlots : WeakCopyAssign(j, k)
    \/ \E j, k \in WeakSlots : WeakMoveAssign(j, k)
    \/ \E j \in WeakSlots, i \in RefSlots : WeakAssignRef(j, i)
    \/ \E j \in WeakSlots : WeakAssignNull(j)
    \/ \E j \in WeakSlots : WeakReset(j)

Spec == Init /\ [][Next]_vars

\* ----------------------------------------------------------- SpecRelease
\* Release without taking the pointer out first: the temporary deletes the object
RefRelease_AsReset(i) ==
    /\ refs[i].live
    /\ \E g \in Reads :
         LET d == _DecRef(refs[i], World, g)
         IN /\ refs' = [refs EXCEPT ![i] = EmptyHandle]
            /\ SetWorld(d.w)
    /\ locked' = NoHandle
    /\ UNCHANGED <<weaks, pc, prog, scopes, cmp, unsafes, hb>>

\* T* p = r.Release(): the pointer is taken out first, then the handle is
\* swapped with an empty temporary, which is destroyed holding m_RefCount.
\* The object whose address was returned is from then on "released": the
\* caller holds its address as a plain pointer.
RefRelease(i) ==
    /\ refs[i].live
    /\ \E g \in Reads :
         LET p == refs[i].ptr
             d == _DecRef([refs[i] EXCEPT !.ptr = NULL], World, g)
         IN /\ refs' = [refs EXCEPT ![i] = EmptyHandle]
            /\ SetWorld(IF p # NULL THEN [d.w EXCEPT !.obj[p].st = "released"] ELSE d.w)
    /\ locked' = NoHandle
    /\ UNCHANGED <<weaks, pc, prog, scopes, cmp, unsafes, hb>>

\* (a swap of m_Ptr alone)
_Swap_PtrOnly(this, other) ==
    [this |-> [this EXCEPT !.ptr = other.ptr], other |-> [other EXCEPT !.ptr = this.ptr]]

\* _Swap: std::swap of m_Ptr, of m_RefCount and of m_Deleter
_Swap(this, other) ==
    [this |-> [this EXCEPT !.ptr = other.ptr, !.rc = other.rc, !.del = other.del],
     other |-> [other EXCEPT !.ptr = this.ptr, !.rc = this.rc, !.del = this.del]]

\* a.Swap(b): if (this != &other) this->_Swap(other)
RefSwap(i, k) ==
    /\ refs[i].live /\ refs[k].live
    /\ refs' = IF i # k THEN [refs EXCEPT ![i] = _Swap(refs[i], refs[k]).this,
                                         ![k] = _Swap(refs[i], refs[k]).other]
                        ELSE refs
    /\ locked' = NoHandle
    /\ UNCHANGED <<weaks, blk, obj, uaf, pc, prog, scopes, cmp, unsafes, hb>>

WeakSwap(j, k) ==
    /\ weaks[j].live /\ weaks[k].live
    /\ weaks' = IF j # k THEN [weaks EXCEPT ![j] = _Swap(weaks[j], weaks[k]).this,
                                           ![k] = _Swap(weaks[j], weaks[k]).other]
                          ELSE weaks
    /\ locked' = NoHandle
    /\ UNCHANGED <<refs, blk, obj, uaf, pc, prog, scopes, cmp, unsafes, hb>>

\* Every operation of Ref and WeakRef on handles that store the address they
\* were constructed with.
NextRelease ==
    \/ Next
    \/ \E i \in RefSlots : RefRelease(i)
    \/ \E i, k \in RefSlots : RefSwap(i, k)
    \/ \E j, k \in WeakSlots : WeakSwap(j, k)

SpecRelease == Init /\ [][NextRelease]_vars

\* Handles made, copied, observed, dropped, released and swapped.
NextSwap ==
    \/ \E i \in RefSlots : CreateRef(i)
    \/ \E i \in RefSlots : RefNull(i)
    \/ \E i, k \in RefSlots : RefCopy(i, k)
    \/ \E i \in RefSlots : RefDtor(i)
    \/ \E i \in RefSlots : RefRelease(i)
    \/ \E j \in WeakSlots, i \in RefSlots : WeakFromRef(j, i)
    \/ \E j \in WeakSlots : WeakNull(j)
    \/ \E j, k \in WeakSlots : WeakCopy(j, k)
    \/ \E j \in WeakSlots : WeakDtor(j)
    \/ \E i, k \in RefSlots : RefSwap(i, k)
    \/ \E j, k \in WeakSlots : WeakSwap(j, k)

SpecSwap == Init /\ [][NextSwap]_vars

\* -------------------------------------------------------------- SpecCast
\* The classes of the examples: DerivedClass : public BaseClass (polymorphic,
\* single inheritance), ExampleClass unrelated to both.
Classes == {"ExampleClass", "BaseClass", "DerivedClass"}
IsA(t, c) == t = c \/ (t = "DerivedClass" /\ c = "BaseClass")

\* The address of a sub-object of the object at p (a member: &owner->m), an
\* address that no operator new has returned.
Sub(p) == p + MaxObjs
Subs == {Sub(p) : p \in Addrs}

\* static_cast, reinterpret_cast and const_cast of a pointer between the
\* classes above keep the address (single inheritance; nullptr stays nullptr);
\* dynamic_cast<c*>(p) is p when the object at p is a c, nullptr otherwise.
StaticCast(p) == p
ReinterpretCast(p) == p
ConstCast(p) == p
DynamicCast(w, p, c) == IF p # NULL /\ IsA(w.obj[p].type, c) THEN p ELSE NULL


\* the aliasing handle built without taking a share of the control block
_AliasConstructFrom_NoInc(ptr, ref, w, g) == [h |-> Handle(ptr, ref.rc, ref.del), w |-> w]

\* (an aliasing constructor that wraps the pointer when the owner has no
\* control block)
_AliasConstructFrom_Wrapping(ptr, ref, w, g) ==
    LET h == Handle(ptr, ref.rc, ref.del)
    IN IF h.rc # NULL THEN _IncRef(h, w, g)
       ELSE IF \E b \in Blocks : w.blk[b].st = "unalloc"
            THEN [h |-> Handle(ptr, FreshBlock(w), "ExampleClass"),
                  w |-> [w EXCEPT !.blk[FreshBlock(w)] = NewRefCount]]
            ELSE [h |-> h, w |-> w]

_AliasConstructFrom(ptr, ref, w, g) ==
    LET h == Handle(ptr, ref.rc, ref.del)
    IN IF h.rc # NULL THEN _IncRef(h, w, g) ELSE [h |-> h, w |-> w]

\* the control block taken over without its deleter
_MoveAliasConstructFrom_NoDeleter(ptr, ref) == Handle(ptr, ref.rc, NoDeleter)

\* the constructed handle; the source becomes EmptyHandle
_MoveAliasConstructFrom(ptr, ref) == Handle(ptr, ref.rc, ref.del)

InitCast ==
    /\ refs = [i \in RefSlots |-> NoHandle]
    /\ weaks = [j \in CastWeakSlots |-> NoHandle]
    /\ blk = [b \in Blocks |-> NoBlock]
    /\ obj = [p \in Addrs \cup Subs |-> NoObject]
    /\ uaf = FALSE
    /\ locked = NoHandle
    /\ pc = <<>>
    /\ prog = <<>>
    /\ scopes = <<>>
    /\ cmp = <<>>
    /\ unsafes = <<>>
    /\ hb = <<>>

\* Ref<BaseClass> r = CreateRef<DerivedClass>(...): Ref<DerivedClass>(new
\* DerivedClass), then the converting move constructor of Ref<BaseClass>
CreateRefDerived(i) ==
    /\ ~refs[i].live
    /\ CanAlloc(World)
    /\ LET r == _ConstructFromRaw("DerivedClass", World)
       IN /\ refs' = [refs EXCEPT ![i] = _MoveConstructFrom(r.h)]
          /\ SetWorld(r.w)
    /\ locked' = NoHandle
    /\ UNCHANGED <<weaks, pc, prog, scopes, cmp, unsafes, hb>>

\* What &owner->member can be: the owner must point to an object to reach in.
MemberPtrs(owner) == IF owner.ptr \in Addrs THEN {Sub(owner.ptr)} ELSE {}

\* Ref<M> r(newPtr, owner)
RefAlias(i, k, q) ==
    /\ ~refs[i].live /\ refs[k].live
    /\ \E g \in Reads :
         LET r == _AliasConstructFrom(q, refs[k], World, g)
         IN /\ refs' = [refs EXCEPT ![i] = r.h]
            /\ SetWorld(r.w)
    /\ locked' = NoHandle
    /\ UNCHANGED <<weaks, pc, prog, scopes, cmp, unsafes, hb>>

\* Ref<M> r(newPtr, std::move(owner))
RefMoveAlias(i, k, q) ==
    /\ ~refs[i].live /\ refs[k].live
    /\ refs' = [refs EXCEPT ![i] = _MoveAliasConstructFrom(q, refs[k]), ![k] = EmptyHandle]
    /\ locked' = NoHandle
    /\ UNCHANGED <<weaks, blk, obj, uaf, pc, prog, scopes, cmp, unsafes, hb>>

\* A handle the casts apply to: a Ref to a class type, storing nullptr or the
\* address of a whole object.
Castable(h) == h.live /\ h.ptr \in Addrs \cup {NULL}

\* Ref<W> r = StaticRefCast<W>(ref)
StaticRefCast(i, k) ==
    /\ ~refs[i].live /\ Castable(refs[k])
    /\ RefAlias(i, k, StaticCast(refs[k].ptr))

\* Ref<W> r = StaticRefCast<W>(std::move(ref))
StaticRefCastMove(i, k) ==
    /\ ~refs[i].live /\ Castable(refs[k])
    /\ RefMoveAlias(i, k, StaticCast(refs[k].ptr))

\* Ref<W> r = DynamicRefCast<W>(ref)
DynamicRefCast(i, k, c) ==
    /\ ~refs[i].live /\ Castable(refs[k])
    /\ RefAlias(i, k, DynamicCast(World, refs[k].ptr, c))

\* Ref<W> r = DynamicRefCast<W>(std::move(ref))
DynamicRefCastMove(i, k, c) ==
    /\ ~refs[i].live /\ Castable(refs[k])
    /\ RefMoveAlias(i, k, DynamicCast(World, refs[k].ptr, c))

\* Ref<W> r = ReinterpretRefCast<W>(ref)
ReinterpretRefCast(i, k) ==
    /\ ~refs[i].live /\ Castable(refs[k])
    /\ RefAlias(i, k, ReinterpretCast(refs[k].ptr))

\* Ref<W> r = ReinterpretRefCast<W>(std::move(ref))
ReinterpretRefCastMove(i, k) ==
    /\ ~refs[i].live /\ Castable(refs[k])
    /\ RefMoveAlias(i, k, ReinterpretCast(refs[k].ptr))

\* Ref<W> r = ConstRefCast<W>(ref)
ConstRefCast(i, k) ==
    /\ ~refs[i].live /\ Castable(refs[k])
    /\ RefAlias(i, k, ConstCast(refs[k].ptr))

\* Ref<W> r = ConstRefCast<W>(std::move(ref))
ConstRefCastMove(i, k) ==
    /\ ~refs[i].live /\ Castable(refs[k])
    /\ RefMoveAlias(i, k, ConstCast(refs[k].ptr))

\* The Ref operations on polymorphic objects with the four casts, and the
\* observers needed for promotion.
NextCast ==
    \/ \E i \in RefSlots : CreateRefDerived(i)
    \/ \E i \in RefSlots : RefNull(i)
    \/ \E i, k \in RefSlots : RefCopy(i, k)
    \/ \E i, k \in RefSlots : RefMove(i, k)
    \/ \E i \in RefSlots : RefDtor(i)
    \/ \E i, k \in RefSlots : RefCopyAssign(i, k)
    \/ \E i \in RefSlots : RefReset(i)
    \/ \E i \in RefSlots, j \in CastWeakSlots : RefLock(i, j)
    \/ \E j \in CastWeakSlots, i \in RefSlots : WeakFromRef(j, i)
    \/ \E j \in CastWeakSlots : WeakDtor(j)
    \/ \E i, k \in RefSlots : StaticRefCast(i, k)
    \/ \E i, k \in RefSlots : StaticRefCastMove(i, k)
    \/ \E i, k \in RefSlots : \E c \in Classes : DynamicRefCast(i, k, c)
    \/ \E i, k \in RefSlots : \E c \in Classes : DynamicRefCastMove(i, k, c)
    \/ \E i, k \in RefSlots : ReinterpretRefCast(i, k)
    \/ \E i, k \in RefSlots : ReinterpretRefCastMove(i, k)
    \/ \E i, k \in RefSlots : ConstRefCast(i, k)
    \/ \E i, k \in RefSlots : ConstRefCastMove(i, k)

SpecCast == InitCast /\ [][NextCast]_vars

\* -------------------------------------------------------------- SpecWrap
\* The same with every way of wrapping a raw pointer, and with the
\* construction of a Ref from a WeakRef.
NextWrap ==
    \/ NextCast
    \/ \E i \in RefSlots : CreateRef(i)
    \/ \E i \in RefSlots : RefResetRaw(i)
    \/ \E i \in RefSlots, j \in CastWeakSlots : RefFromWeak(i, j)

SpecWrap == InitCast /\ [][NextWrap]_vars

\* ------------------------------------------------------------- SpecAlias
\* The same with the aliasing constructors, Release and Swap.
NextAlias ==
    \/ NextCast
    \/ \E i, k \in RefSlots : \E q \in MemberPtrs(refs[k]) : RefAlias(i, k, q)
    \/ \E i, k \in RefSlots : \E q \in MemberPtrs(refs[k]) : RefMoveAlias(i, k, q)
    \/ \E i \in RefSlots : RefRelease(i)
    \/ \E i, k \in RefSlots : RefSwap(i, k)

SpecAlias == InitCast /\ [][NextAlias]_vars

\* ------------------------------------------------------------ SpecAssign
\* Copy and move assignment among the handles of a family, aliases included.
NextAssign ==
    \/ \E i \in RefSlots : CreateRef(i)
    \/ \E i \in RefSlots : CreateRefDerived(i)
    \/ \E i \in RefSlots : RefNull(i)
    \/ \E i, k \in RefSlots : RefCopy(i, k)
    \/ \E i \in RefSlots : RefDtor(i)
    \/ \E i, k \in RefSlots : \E q \in MemberPtrs(refs[k]) : RefAlias(i, k, q)
    \/ \E i, k \in RefSlots : RefCopyAssign(i, k)
    \/ \E i, k \in RefSlots : RefMoveAssign(i, k)
    \/ \E j \in CastWeakSlots, i \in RefSlots : WeakFromRef(j, i)
    \/ \E j \in CastWeakSlots : WeakDtor(j)

SpecAssign == InitCast /\ [][NextAssign]_vars

\* -------------------------------------------------------- SpecEmptyAlias
\* What newPtr can be when the owner is empty: there is no object of the
\* owner to reach into, so it is the address of any object at all.
StrayPtrs(owner) == IF owner = EmptyHandle THEN Addrs \cup Subs ELSE {}

\* The aliasing constructor applied to owners of every kind, the empty one
\* included, among the operations that make, copy, move and drop Refs.
NextEmptyAlias ==
    \/ \E i \in RefSlots : CreateRef(i)
    \/ \E i \in RefSlots : CreateRefDerived(i)
    \/ \E i \in RefSlots : RefNull(i)
    \/ \E i, k \in RefSlots : RefCopy(i, k)
    \/ \E i, k \in RefSlots : RefMove(i, k)
    \/ \E i \in RefSlots : RefDtor(i)
    \/ \E i, k \in RefSlots : \E q \in MemberPtrs(refs[k]) \cup StrayPtrs(refs[k]) : RefAlias(i, k, q)

SpecEmptyAlias == InitCast /\ [][NextEmptyAlias]_vars

\* ------------------------------------------------------------- SpecScope
\* Scope<_Ty>: the pair (m_Ptr, m_Deleter), no control block.
ScopeHandle(p, d) == [live |-> TRUE, ptr |-> p, del |-> d]
\* Scope(nullptr), Scope()
EmptyScope == ScopeHandle(NULL, NoDeleter)
\* a slot that holds no Scope (before construction, after destruction)
NoScope == [live |-> FALSE, ptr |-> NULL, del |-> NoDeleter]

\* the concrete types CreateScope<_Ty> is called with (BaseClass is abstract)
ScopeTypes == {"ExampleClass", "DerivedClass"}

\* new _Ty(...): [p |-> the address, w |-> the heap after]
CanNew(w) == \E p \in ScopeAddrs : w.obj[p].st = "unalloc"
New(t, w) ==
    LET p == CHOOSE a \in ScopeAddrs : w.obj[a].st = "unalloc" /\ \A q \in ScopeAddrs : q < a => w.obj[q].st # "unalloc"
    IN [p |-> p, w |-> [w EXCEPT !.obj[p] = [st |-> "live", type |-> t, dels |-> 0, by |-> NoDeleter, cb |-> NULL]]]

\* Scope(_Ty2* ptr): m_Deleter = &_DefaultDelete<_Ty2>
Scope_FromRaw(p, t) == ScopeHandle(p, t)


\* the destructor that deletes nothing
Scope_Dtor_Leak(h, w) == w

\* ~Scope(): the heap after
Scope_Dtor(h, w) == IF h.ptr # NULL /\ h.del # NoDeleter THEN _DefaultDelete(w, h.del, h.ptr) ELSE w


\* Release that forgets to clear m_Ptr
Scope_Release_Keep(h) == h

\* Release(): the handle after; the address returned is the m_Ptr before
Scope_Release(h) == [h EXCEPT !.ptr = NULL]


\* the fields copied, the source left as it was
Scope_MoveFrom_KeepSrc(scope) == [h |-> ScopeHandle(scope.ptr, scope.del), src |-> scope]

\* the pointer moved, the deleter of the static type put in its place
Scope_MoveFrom_StaticDeleter(scope) == [h |-> ScopeHandle(scope.ptr, IF scope.del = "DerivedClass" THEN "BaseClass" ELSE scope.del), src |-> [Scope_Release(scope) EXCEPT !.del = NoDeleter]]

\* Scope(Scope<_Ty2>&& scope): [h |-> the constructed handle, src |-> scope after]
Scope_MoveFrom(scope) == [h |-> ScopeHandle(scope.ptr, scope.del), src |-> [Scope_Release(scope) EXCEPT !.del = NoDeleter]]

InitScope ==
    /\ refs = <<>>
    /\ weaks = <<>>
    /\ blk = [b \in Blocks |-> NoBlock]
    /\ obj = [p \in ScopeAddrs |-> NoObject]
    /\ uaf = FALSE
    /\ locked = NoHandle
    /\ pc = <<>>
    /\ prog = <<>>
    /\ scopes = [s \in ScopeSlots |-> NoScope]
    /\ cmp = <<>>
    /\ unsafes = <<>>
    /\ hb = <<>>

\* Scope<T> s = CreateScope<T2>(...)
CreateScope(s) ==
    /\ ~scopes[s].live
    /\ CanNew(World)
    /\ \E t \in ScopeTypes :
         LET n == New(t, World)
         IN /\ scopes' = [scopes EXCEPT ![s] = Scope_MoveFrom(Scope_FromRaw(n.p, t)).h]
            /\ SetWorld(n.w)
    /\ UNCHANGED <<refs, weaks, locked, pc, prog, cmp, unsafes, hb>>

\* Scope<T> s; Scope<T> s = nullptr
ScopeNull(s) ==
    /\ ~scopes[s].live
    /\ scopes' = [scopes EXCEPT ![s] = EmptyScope]
    /\ UNCHANGED <<refs, weaks, blk, obj, uaf, locked, pc, prog, cmp, unsafes, hb>>

\* Scope<T> s = std::move(other)
ScopeMove(s, k) ==
    /\ ~scopes[s].live /\ scopes[k].live
    /\ LET m == Scope_MoveFrom(scopes[k])
       IN scopes' = [scopes EXCEPT ![s] = m.h, ![k] = m.src]
    /\ UNCHANGED <<refs, weaks, blk, obj, uaf, locked, pc, prog, cmp, unsafes, hb>>

\* the end of s's scope
ScopeDtor(s) ==
    /\ scopes[s].live
    /\ scopes' = [scopes EXCEPT ![s] = NoScope]
    /\ SetWorld(Scope_Dtor(scopes[s], World))
    /\ UNCHANGED <<refs, weaks, locked, pc, prog, cmp, unsafes, hb>>

\* a Swap that overwrites a with b and leaves b as it was
ScopeSwap_Copy(s, k) ==
    /\ scopes[s].live /\ scopes[k].live
    /\ scopes' = [scopes EXCEPT ![s] = scopes[k]]
    /\ UNCHANGED <<refs, weaks, blk, obj, uaf, locked, pc, prog, cmp, unsafes, hb>>

\* a.Swap(b)
ScopeSwap(s, k) ==
    /\ scopes[s].live /\ scopes[k].live
    /\ scopes' = IF s # k THEN [scopes EXCEPT ![s] = scopes[k], ![k] = scopes[s]] ELSE scopes
    /\ UNCHANGED <<refs, weaks, blk, obj, uaf, locked, pc, prog, cmp, unsafes, hb>>

\* Scope(...).Swap(*this); the temporary, now holding the old fields, is destroyed
\* s.Reset(new T(...))
ScopeResetRaw(s) ==
    /\ scopes[s].live
    /\ CanNew(World)
    /\ \E t \in ScopeTypes :
         LET n == New(t, World)
         IN /\ scopes' = [scopes EXCEPT ![s] = Scope_FromRaw(n.p, t)]
            /\ SetWorld(Scope_Dtor(scopes[s], n.w))
    /\ UNCHANGED <<refs, weaks, locked, pc, prog, cmp, unsafes, hb>>

\* s.Reset()
ScopeReset(s) ==
    /\ scopes[s].live
    /\ scopes' = [scopes EXCEPT ![s] = EmptyScope]
    /\ SetWorld(Scope_Dtor(scopes[s], World))
    /\ UNCHANGED <<refs, weaks, locked, pc, prog, cmp, unsafes, hb>>

\* s = nullptr
ScopeAssignNull(s) ==
    /\ scopes[s].live
    /\ scopes' = [scopes EXCEPT ![s] = EmptyScope]
    /\ SetWorld(Scope_Dtor(scopes[s], World))
    /\ UNCHANGED <<refs, weaks, locked, pc, prog, cmp, unsafes, hb>>

\* T* p = s.Release(): the object whose address was returned is "released"
ScopeRelease(s) ==
    /\ scopes[s].live
    /\ scopes' = [scopes EXCEPT ![s] = Scope_Release(scopes[s])]
    /\ LET p == scopes[s].ptr
       IN SetWorld(IF p # NULL THEN [World EXCEPT !.obj[p].st = "released"] ELSE World)
    /\ UNCHANGED <<refs, weaks, locked, pc, prog, cmp, unsafes, hb>>

\* s = std::move(other)
ScopeMoveAssign(s, k) ==
    /\ scopes[s].live /\ scopes[k].live
    /\ LET m == Scope_MoveFrom(scopes[k])
           s1 == [scopes EXCEPT ![k] = m.src]
       IN /\ scopes' = [s1 EXCEPT ![s] = m.h]
          /\ SetWorld(Scope_Dtor(s1[s], World))
    /\ UNCHANGED <<refs, weaks, locked, pc, prog, cmp, unsafes, hb>>

\* Every operation of Scope on objects wrapped once.
NextScope ==
    \/ \E s \in ScopeSlots : CreateScope(s)
    \/ \E s \in ScopeSlots : ScopeNull(s)
    \/ \E s, k \in ScopeSlots : ScopeMove(s, k)
    \/ \E s \in ScopeSlots : ScopeDtor(s)
    \/ \E s, k \in ScopeSlots : ScopeSwap(s, k)
    \/ \E s \in ScopeSlots : ScopeResetRaw(s)
    \/ \E s \in ScopeSlots : ScopeReset(s)
    \/ \E s \in ScopeSlots : ScopeAssignNull(s)
    \/ \E s \in ScopeSlots : ScopeRelease(s)
    \/ \E s, k \in ScopeSlots : ScopeMoveAssign(s, k)

SpecScope == InitScope /\ [][NextScope]_vars

\* ------------------------------------------------- comparison operators
\* The free operator templates at the end of the header.  An operand is a
\* Ref, a WeakRef, a raw pointer or nullptr; of a handle the comparison sees
\* m_Ptr and m_RefCount, of a raw pointer its value.
Operand(k, p, b) == [kind |-> k, ptr |-> p, rc |-> b]

\* Every value an operand can have: a handle with any stored address and any
\* control block (alias handles and failed casts included), a raw pointer,
\* nullptr.
Operands ==
    {Operand(k, p, b) : k \in {"Ref", "WeakRef"}, p \in CmpAddrs \cup {NULL}, b \in CmpAddrs \cup {NULL}}
      \cup {Operand("raw", p, NULL) : p \in CmpAddrs \cup {NULL}}
      \cup {Operand("nullptr", NULL, NULL)}

Ops == {"==", "!=", "<", "<=", ">", ">="}

\* Ref::Raw, WeakRef::Raw: the stored m_Ptr; a raw pointer is its own value
\* and nullptr is the null address.
Raw(x) == IF x.kind = "nullptr" THEN NULL ELSE x.ptr

\* The operand kinds each operator template is declared for.  Every operator
\* has the five forms (handle, handle), (handle, pointer), (pointer, handle),
\* (handle, nullptr), (nullptr, handle) for Ref; for WeakRef so has every
\* operator but <, whose first form is declared for (Ref, WeakRef).
Overloads ==
    {<<o, "Ref", k>> : o \in Ops, k \in {"Ref", "raw", "nullptr"}}
      \cup {<<o, k, "Ref">> : o \in Ops, k \in {"raw", "nullptr"}}
      \cup {<<o, "WeakRef", "WeakRef">> : o \in Ops \ {"<"}}
      \cup {<<"<", "Ref", "WeakRef">>}
      \cup {<<o, "WeakRef", k>> : o \in Ops, k \in {"raw", "nullptr"}}
      \cup {<<o, k, "WeakRef">> : o \in Ops, k \in {"raw", "nullptr"}}

\* The built-in comparison of two pointer values that every body returns.
PtrCompare(o, a, b) ==
    CASE o = "==" -> a = b
      [] o = "!=" -> a # b
      [] o = "<"  -> a < b
      [] o = "<=" -> a <= b
      [] o = ">"  -> a > b
      [] o = ">=" -> a >= b

Result(b) == IF b THEN "true" ELSE "false"

\* left o right: the template for the operands' kinds, if there is one,
\* returns the comparison of the Raw() of both sides; the explicit operator
\* bool of the handles offers no built-in candidate, so without a template
\* the expression has no viable operator.
Evaluate(o, left, right) ==
    IF <<o, left.kind, right.kind>> \in Overloads
    THEN Result(PtrCompare(o, Raw(left), Raw(right)))
    ELSE "ill-formed"

InitCompare ==
    /\ refs = <<>>
    /\ weaks = <<>>
    /\ blk = [b \in Blocks |-> NoBlock]
    /\ obj = [p \in Addrs |-> NoObject]
    /\ uaf = FALSE
    /\ locked = NoHandle
    /\ pc = <<>>
    /\ prog = <<>>
    /\ scopes = <<>>
    /\ unsafes = <<>>
    /\ hb = <<>>
    /\ cmp \in {[op |-> o, left |-> l, right |-> r, res |-> "none"] : o \in Ops, l \in Operands, r \in Operands}

Compare(o) ==
    /\ cmp.res = "none"
    /\ cmp.op = o
    /\ cmp' = [cmp EXCEPT !.res = Evaluate(o, cmp.left, cmp.right)]
    /\ UNCHANGED <<refs, weaks, blk, obj, uaf, locked, pc, prog, scopes, unsafes, hb>>

Operator_Equal == Compare("==")
Operator_NotEqual == Compare("!=")
Operator_Less == Compare("<")
Operator_LessEqual == Compare("<=")
Operator_Greater == Compare(">")
Operator_GreaterEqual == Compare(">=")

NextCompare ==
    \/ Operator_Equal
    \/ Operator_NotEqual
    \/ Operator_Less
    \/ Operator_LessEqual
    \/ Operator_Greater
    \/ Operator_GreaterEqual

SpecCompare == InitCompare /\ [][NextCompare]_vars

\* ----------------------------------------------------------- UnsafeRef<_Ty>
\* the fields copied and a share taken, as the copy constructor of Ref does
_UnsafelyConstructFrom_Counted(ptr, w, g) == _IncRef(Handle(ptr.ptr, ptr.rc, ptr.del), w, g)

\* the fields are copied; no counter is touched
_UnsafelyConstructFrom(ptr, w, g) == [h |-> Handle(ptr.ptr, ptr.rc, ptr.del), w |-> w]

InitUnsafe ==
    /\ refs = [i \in RefSlots |-> NoHandle]
    /\ weaks = [j \in CastWeakSlots |-> NoHandle]
    /\ blk = [b \in Blocks |-> NoBlock]
    /\ obj = [p \in Addrs \cup Subs |-> NoObject]
    /\ uaf = FALSE
    /\ locked = NoHandle
    /\ pc = <<>>
    /\ prog = <<>>
    /\ scopes = <<>>
    /\ cmp = <<>>
    /\ unsafes = [u \in UnsafeSlots |-> NoHandle]
    /\ hb = <<>>

\* UnsafeRef<T> u = UnsafeRefCast(ref); UnsafeRef<T> u(ref)
UnsafeFromRef(u, i) ==
    /\ ~unsafes[u].live /\ refs[i].live
    /\ \E g \in Reads :
         LET r == _UnsafelyConstructFrom(refs[i], World, g)
         IN /\ unsafes' = [unsafes EXCEPT ![u] = r.h]
            /\ SetWorld(r.w)
    /\ UNCHANGED <<refs, weaks, locked, pc, prog, scopes, cmp, hb>>

\* UnsafeRef<T> u; UnsafeRef<T> u = nullptr
UnsafeNull(u) ==
    /\ ~unsafes[u].live
    /\ unsafes' = [unsafes EXCEPT ![u] = EmptyHandle]
    /\ UNCHANGED <<refs, weaks, blk, obj, uaf, locked, pc, prog, scopes, cmp, hb>>

\* the end of u's scope: ~UnsafeRef is defaulted
UnsafeDtor(u) ==
    /\ unsafes[u].live
    /\ unsafes' = [unsafes EXCEPT ![u] = NoHandle]
    /\ UNCHANGED <<refs, weaks, blk, obj, uaf, locked, pc, prog, scopes, cmp, hb>>

\* u = nullptr: UnsafeRef(nullptr).Swap(*this); the temporary is destroyed
UnsafeAssignNull(u) ==
    /\ unsafes[u].live
    /\ unsafes' = [unsafes EXCEPT ![u] = EmptyHandle]
    /\ UNCHANGED <<refs, weaks, blk, obj, uaf, locked, pc, prog, scopes, cmp, hb>>

\* u.Swap(other)
UnsafeSwap(u, v) ==
    /\ unsafes[u].live /\ unsafes[v].live
    /\ unsafes' = IF u # v THEN [unsafes EXCEPT ![u] = unsafes[v], ![v] = unsafes[u]] ELSE unsafes
    /\ UNCHANGED <<refs, weaks, blk, obj, uaf, locked, pc, prog, scopes, cmp, hb>>

\* u.IncRef()
UnsafeIncRef(u) ==
    /\ unsafes[u].live
    /\ unsafes[u].rc # NULL => blk[unsafes[u].rc].strongs < MaxCount
    /\ \E g \in Reads :
         LET r == _IncRef(unsafes[u], World, g)
         IN /\ unsafes' = [unsafes EXCEPT ![u] = r.h]
            /\ SetWorld(r.w)
    /\ UNCHANGED <<refs, weaks, locked, pc, prog, scopes, cmp, hb>>

\* The number of deleter calls on one object is kept below the cap: counts
\* adjusted by hand let a program delete an object again and again.
DelsBelowCap == \A p \in Addrs : obj[p].dels < MaxCount

\* the end of r's scope, in this program
RefDtorCapped(i) == DelsBelowCap /\ RefDtor(i)

\* u.DecRef()
UnsafeDecRef(u) ==
    /\ DelsBelowCap
    /\ unsafes[u].live
    /\ unsafes[u].rc # NULL => blk[unsafes[u].rc].strongs >= 0
    /\ \E g \in Reads :
         LET r == _DecRef(unsafes[u], World, g)
         IN /\ unsafes' = [unsafes EXCEPT ![u] = r.h]
            /\ SetWorld(r.w)
    /\ UNCHANGED <<refs, weaks, locked, pc, prog, scopes, cmp, hb>>

\* u.IncWeakRef()
UnsafeIncWeakRef(u) ==
    /\ unsafes[u].live
    /\ unsafes[u].rc # NULL => blk[unsafes[u].rc].weaks < MaxCount
    /\ \E g \in Reads :
         LET r == _IncWeakRef(unsafes[u], World, g)
         IN /\ unsafes' = [unsafes EXCEPT ![u] = r.h]
            /\ SetWorld(r.w)
    /\ UNCHANGED <<refs, weaks, locked, pc, prog, scopes, cmp, hb>>

\* u.DecWeakRef()
UnsafeDecWeakRef(u) ==
    /\ unsafes[u].live
    /\ unsafes[u].rc # NULL => blk[unsafes[u].rc].weaks >= 0
    /\ \E g \in Reads :
         LET r == _DecWeakRef(unsafes[u], World, g)
         IN /\ unsafes' = [unsafes EXCEPT ![u] = r.h]
            /\ SetWorld(r.w)
    /\ UNCHANGED <<refs, weaks, locked, pc, prog, scopes, cmp, hb>>

\* A program that owns objects by Refs, casts them, observes them by WeakRefs
\* and adjusts the counters by hand through UnsafeRefs.
NextUnsafe ==
    \/ \E i \in RefSlots : CreateRef(i)
    \/ \E i \in RefSlots : CreateRefDerived(i)
    \/ \E i, k \in RefSlots : \E c \in Classes : DynamicRefCastMove(i, k, c)
    \/ \E i, k \in RefSlots : RefCopy(i, k)
    \/ \E i \in RefSlots : RefDtorCapped(i)
    \/ \E j \in CastWeakSlots, i \in RefSlots : WeakFromRef(j, i)
    \/ \E j \in CastWeakSlots : WeakDtor(j)
    \/ \E u \in UnsafeSlots, i \in RefSlots : UnsafeFromRef(u, i)
    \/ \E u \in UnsafeSlots : UnsafeNull(u)
    \/ \E u \in UnsafeSlots : UnsafeDtor(u)
    \/ \E u \in UnsafeSlots : UnsafeAssignNull(u)
    \/ \E u, v \in UnsafeSlots : UnsafeSwap(u, v)
    \/ \E u \in UnsafeSlots : UnsafeIncRef(u)
    \/ \E u \in UnsafeSlots : UnsafeDecRef(u)
    \/ \E u \in UnsafeSlots : UnsafeIncWeakRef(u)
    \/ \E u \in UnsafeSlots : UnsafeDecWeakRef(u)

SpecUnsafe == InitUnsafe /\ [][NextUnsafe]_vars

\* ---------------------------------------------------------------- threads
\* Several threads, each working on handle instances of its own.  An operation
\* is cut at every access to an atomic counter: one step per fetch_add,
\* fetch_sub or load, and one for each delete that follows from it.
Op(op, h, src) == [op |-> op, h |-> h, src |-> src]
Cur(t) == Head(prog[t])
Ready(t, op) == prog[t] # <<>> /\ pc[t] = "ready" /\ Cur(t).op = op
At(t, label) == prog[t] # <<>> /\ pc[t] = label
Finish(t) == pc' = [pc EXCEPT ![t] = "ready"] /\ prog' = [prog EXCEPT ![t] = Tail(prog[t])]
Goto(t, label) == pc' = [pc EXCEPT ![t] = label] /\ UNCHANGED prog
Threads == DOMAIN prog
Done(t) == prog[t] = <<>>

\* Ref<T> copy = original: the fields are copied, then m_Strongs.fetch_add(1)
T_CopyConstruct(t) ==
    /\ Ready(t, "Copy")
    /\ \E g \in Reads :
         LET r == _CopyConstructFrom(refs[Cur(t).src], World, g)
         IN /\ refs' = [refs EXCEPT ![Cur(t).h] = r.h]
            /\ SetWorld(r.w)
    /\ Finish(t)
    /\ UNCHANGED <<weaks, locked, scopes, cmp, unsafes, hb>>

\* ~Ref, _DecRef: m_RefCount && m_RefCount->DecRef() == 0
T_DecRef(t) ==
    /\ Ready(t, "DropRef")
    /\ LET i == Cur(t).h
           h == refs[i]
       IN IF h.rc = NULL
          THEN /\ refs' = [refs EXCEPT ![i] = NoHandle]
               /\ Finish(t)
               /\ UNCHANGED <<blk, obj, uaf>>
          ELSE \E g \in Reads :
                 /\ SetWorld(DecRef(World, h.rc, g))
                 /\ IF DecRefValue(World, h.rc, g) = 0
                    THEN Goto(t, "del") /\ UNCHANGED refs
                    ELSE Finish(t) /\ refs' = [refs EXCEPT ![i] = NoHandle]
    /\ UNCHANGED <<weaks, locked, scopes, cmp, unsafes, hb>>

\* _DecRef: if (m_Ptr) { if (m_Deleter) m_Deleter(m_Ptr); m_Ptr = nullptr; }
T_Delete(t) ==
    /\ At(t, "del")
    /\ LET i == Cur(t).h
           h == refs[i]
       IN /\ SetWorld(IF h.ptr # NULL /\ h.del # NoDeleter THEN _DefaultDelete(World, h.del, h.ptr) ELSE World)
          /\ refs' = [refs EXCEPT ![i].ptr = NULL]
    /\ Goto(t, "chk")
    /\ UNCHANGED <<weaks, locked, scopes, cmp, unsafes, hb>>

\* _DecRef: if (_WeakRefCount() == 0)
T_CheckWeaks(t) ==
    /\ At(t, "chk")
    /\ LET i == Cur(t).h
           h == refs[i]
       IN \E g \in Reads :
            /\ SetWorld(Touch(World, h.rc))
            /\ IF _WeakRefCount(h, World, g) = 0
               THEN Goto(t, "free") /\ UNCHANGED refs
               ELSE Finish(t) /\ refs' = [refs EXCEPT ![i] = NoHandle]
    /\ UNCHANGED <<weaks, locked, scopes, cmp, unsafes, hb>>

\* _DecRef: delete m_RefCount; m_RefCount = nullptr; and the handle is gone
T_Free(t) ==
    /\ At(t, "free")
    /\ SetWorld(DeleteRefCount(World, refs[Cur(t).h].rc))
    /\ refs' = [refs EXCEPT ![Cur(t).h] = NoHandle]
    /\ Finish(t)
    /\ UNCHANGED <<weaks, locked, scopes, cmp, unsafes, hb>>

\* ~WeakRef, _DecWeakRef: m_RefCount && m_RefCount->DecWeakRef() == 0
T_DecWeakRef(t) ==
    /\ Ready(t, "DropWeak")
    /\ LET j == Cur(t).h
           h == weaks[j]
       IN IF h.rc = NULL
          THEN /\ weaks' = [weaks EXCEPT ![j] = NoHandle]
               /\ Finish(t)
               /\ UNCHANGED <<blk, obj, uaf>>
          ELSE \E g \in Reads :
                 /\ SetWorld(DecWeakRef(World, h.rc, g))
                 /\ IF DecWeakRefValue(World, h.rc, g) = 0
                    THEN Goto(t, "wchk") /\ UNCHANGED weaks
                    ELSE Finish(t) /\ weaks' = [weaks EXCEPT ![j] = NoHandle]
    /\ UNCHANGED <<refs, locked, scopes, cmp, unsafes, hb>>

\* _DecWeakRef: && (_RefCount() == 0)
T_CheckStrongs(t) ==
    /\ At(t, "wchk")
    /\ LET j == Cur(t).h
           h == weaks[j]
       IN \E g \in Reads :
            /\ SetWorld(Touch(World, h.rc))
            /\ IF _RefCount(h, World, g) = 0
               THEN Goto(t, "wfree") /\ UNCHANGED weaks
               ELSE Finish(t) /\ weaks' = [weaks EXCEPT ![j] = NoHandle]
    /\ UNCHANGED <<refs, locked, scopes, cmp, unsafes, hb>>

\* _DecWeakRef: delete m_RefCount; m_RefCount = nullptr; and the handle is gone
T_WeakFree(t) ==
    /\ At(t, "wfree")
    /\ SetWorld(DeleteRefCount(World, weaks[Cur(t).h].rc))
    /\ weaks' = [weaks EXCEPT ![Cur(t).h] = NoHandle]
    /\ Finish(t)
    /\ UNCHANGED <<refs, locked, scopes, cmp, unsafes, hb>>

\* Lock: if (Expired()) return nullptr;
T_Expired(t) ==
    /\ Ready(t, "Lock")
    /\ LET weak == weaks[Cur(t).src]
       IN \E g \in Reads :
            /\ SetWorld(IF weak.rc # NULL THEN Touch(World, weak.rc) ELSE World)
            /\ IF Expired(weak, World, g)
               THEN Finish(t) /\ refs' = [refs EXCEPT ![Cur(t).h] = EmptyHandle]
               ELSE Goto(t, "cfw") /\ UNCHANGED refs
    /\ UNCHANGED <<weaks, locked, scopes, cmp, unsafes, hb>>

\* _ConstructFromWeak: if (weak._RefCount() == 0) { null everything; return; }
T_ConstructFromWeak(t) ==
    /\ At(t, "cfw")
    /\ LET weak == weaks[Cur(t).src]
       IN \E g \in Reads :
            /\ SetWorld(IF weak.rc # NULL THEN Touch(World, weak.rc) ELSE World)
            /\ IF _RefCount(weak, World, g) = 0
               THEN Finish(t) /\ refs' = [refs EXCEPT ![Cur(t).h] = EmptyHandle]
               ELSE Goto(t, "inc") /\ UNCHANGED refs
    /\ UNCHANGED <<weaks, locked, scopes, cmp, unsafes, hb>>

\* _ConstructFromWeak with the test and the increment as one atomic step
\* (increment if nonzero): the alternative the code does not implement.
T_LockIncRef_IfNonzero(t) ==
    /\ At(t, "inc")
    /\ LET weak == weaks[Cur(t).src]
       IN \E g \in Reads :
            IF _RefCount(weak, World, g) = 0
            THEN /\ refs' = [refs EXCEPT ![Cur(t).h] = EmptyHandle]
                 /\ SetWorld(Touch(World, weak.rc))
            ELSE LET r == _IncRef(Handle(weak.ptr, weak.rc, weak.del), World, g)
                 IN /\ refs' = [refs EXCEPT ![Cur(t).h] = r.h]
                    /\ SetWorld(r.w)
    /\ Finish(t)
    /\ UNCHANGED <<weaks, locked, scopes, cmp, unsafes, hb>>

\* _ConstructFromWeak: the fields are copied, then _IncRef(); Lock returns res
T_LockIncRef(t) ==
    /\ At(t, "inc")
    /\ LET weak == weaks[Cur(t).src]
       IN \E g \in Reads :
            LET r == _IncRef(Handle(weak.ptr, weak.rc, weak.del), World, g)
            IN /\ refs' = [refs EXCEPT ![Cur(t).h] = r.h]
               /\ SetWorld(r.w)
    /\ Finish(t)
    /\ UNCHANGED <<weaks, locked, scopes, cmp, unsafes, hb>>

\* thread.join() on every other thread
T_Join(t) ==
    /\ Ready(t, "Join")
    /\ \A u \in Threads \ {t} : Done(u)
    /\ Finish(t)
    /\ UNCHANGED <<refs, weaks, blk, obj, uaf, locked, scopes, cmp, unsafes, hb>>

\* One object of type ty wrapped once, with the given counters.
OneObject(ty, strongs, wk) ==
    /\ obj = [p \in Addrs |-> IF p = 1 THEN [NoObject EXCEPT !.st = IF strongs = 0 THEN "destroyed" ELSE "live",
                                                             !.type = ty, !.cb = 1]
                              ELSE NoObject]
    /\ blk = [b \in Blocks |-> IF b = 1 THEN [NewRefCount EXCEPT !.strongs = strongs, !.weaks = wk] ELSE NoBlock]
    /\ uaf = FALSE
    /\ locked = NoHandle
    /\ scopes = <<>>
    /\ cmp = <<>>
    /\ unsafes = <<>>

\* ---------------------------------------------------------- SpecCopyDrop
\* Scenario D: thread 0 holds the original Ref; each of the other threads
\* copies it and drops the copy, Cycles times; thread 0 joins them and then
\* leaves the scope of the original.
RECURSIVE Repeat(_, _)
Repeat(seq, n) == IF n = 0 THEN <<>> ELSE seq \o Repeat(seq, n - 1)

InitCopyDrop ==
    /\ \E ty \in Types :
         /\ OneObject(ty, 1, 0)
         /\ refs = [i \in 0..Workers |-> IF i = 0 THEN Handle(1, 1, ty) ELSE NoHandle]
    /\ weaks = <<>>
    /\ pc = [t \in 0..Workers |-> "ready"]
    /\ prog = [t \in 0..Workers |->
                 IF t = 0 THEN <<Op("Join", 0, 0), Op("DropRef", 0, 0)>>
                 ELSE Repeat(<<Op("Copy", t, 0), Op("DropRef", t, 0)>>, Cycles)]
    /\ hb = <<>>

NextCopyDrop ==
    \/ \E t \in Threads : T_CopyConstruct(t)
    \/ \E t \in Threads : T_DecRef(t)
    \/ \E t \in Threads : T_Delete(t)
    \/ \E t \in Threads : T_CheckWeaks(t)
    \/ \E t \in Threads : T_Free(t)
    \/ \E t \in Threads : T_Join(t)

SpecCopyDrop == InitCopyDrop /\ [][NextCopyDrop]_vars

\* ---------------------------------------------------------- SpecLockRace
\* Thread 0 drops the only Ref of an object while each thread t in 1..Lockers
\* locks its own WeakRef t into Ref t, then drops that Ref and the WeakRef.
InitLockRace ==
    /\ \E ty \in Types :
         /\ OneObject(ty, 1, Lockers)
         /\ refs = [i \in 0..Lockers |-> IF i = 0 THEN Handle(1, 1, ty) ELSE NoHandle]
         /\ weaks = [j \in 1..Lockers |-> Handle(1, 1, ty)]
    /\ pc = [t \in 0..Lockers |-> "ready"]
    /\ prog = [t \in 0..Lockers |->
                 IF t = 0 THEN <<Op("DropRef", 0, 0)>>
                 ELSE <<Op("Lock", t, t), Op("DropRef", t, 0), Op("DropWeak", t, 0)>>]
    /\ hb = <<>>

NextLockRace ==
    \/ \E t \in Threads : T_Expired(t)
    \/ \E t \in Threads : T_ConstructFromWeak(t)
    \/ \E t \in Threads : T_LockIncRef(t)
    \/ \E t \in Threads : T_DecRef(t)
    \/ \E t \in Threads : T_Delete(t)
    \/ \E t \in Threads : T_CheckWeaks(t)
    \/ \E t \in Threads : T_Free(t)
    \/ \E t \in Threads : T_DecWeakRef(t)
    \/ \E t \in Threads : T_CheckStrongs(t)
    \/ \E t \in Threads : T_WeakFree(t)

SpecLockRace == InitLockRace /\ [][NextLockRace]_vars

\* ---------------------------------------------------------- SpecDropRace
\* Each thread t in 1..Droppers holds one handle of one family, a Ref or a
\* WeakRef (at least one of each kind exists), and drops it.
InitDropRace ==
    \E ty \in Types, kind \in [1..Droppers -> {"Ref", "Weak"}] :
        /\ \E t \in 1..Droppers : kind[t] = "Ref"
        /\ \E t \in 1..Droppers : kind[t] = "Weak"
        /\ OneObject(ty, Cardinality({t \in 1..Droppers : kind[t] = "Ref"}),
                         Cardinality({t \in 1..Droppers : kind[t] = "Weak"}))
        /\ refs = [t \in 1..Droppers |-> IF kind[t] = "Ref" THEN Handle(1, 1, ty) ELSE NoHandle]
        /\ weaks = [t \in 1..Droppers |-> IF kind[t] = "Weak" THEN Handle(1, 1, ty) ELSE NoHandle]
        /\ pc = [t \in 1..Droppers |-> "ready"]
        /\ prog = [t \in 1..Droppers |->
                     IF kind[t] = "Ref" THEN <<Op("DropRef", t, 0)>> ELSE <<Op("DropWeak", t, 0)>>]
        /\ hb = <<>>

NextDropRace ==
    \/ \E t \in Threads : T_DecRef(t)
    \/ \E t \in Threads : T_Delete(t)
    \/ \E t \in Threads : T_CheckWeaks(t)
    \/ \E t \in Threads : T_Free(t)
    \/ \E t \in Threads : T_DecWeakRef(t)
    \/ \E t \in Threads : T_CheckStrongs(t)
    \/ \E t \in Threads : T_WeakFree(t)

SpecDropRace == InitDropRace /\ [][NextDropRace]_vars

\* ------------------------------------------------------------- SpecOrder
\* Memory order on m_Strongs.  A write to the object is named by the thread
\* that made it and the number of operations that thread had left.
\* hb.writes are the writes made so far, hb.seen[t] those that happen before
\* the next step of thread t, hb.rel those released on m_Strongs (every
\* modification of the counter after construction is a read-modify-write, so
\* each one continues the release sequences of all earlier ones), and
\* hb.sync[t] the memory orders of the synchronising operations of the
\* _DecRef thread t is in.
RMW(h, t, mo) ==
    [h EXCEPT !.seen[t] = IF mo \in {"acquire", "acq_rel"} THEN @ \cup h.rel ELSE @,
              !.rel = IF mo \in {"release", "acq_rel"} THEN @ \cup h.seen[t] ELSE @,
              !.sync[t] = <<mo>>]

\* m_Strongs.fetch_add(1, std::memory_order_relaxed)
Strongs_FetchAdd(h, t) == RMW(h, t, "relaxed")

\* (a decrement that orders nothing)
Strongs_FetchSub_Relaxed(h, t) == RMW(h, t, "relaxed")

\* m_Strongs.fetch_sub(1, std::memory_order_acq_rel)
Strongs_FetchSub(h, t) == RMW(h, t, "acq_rel")

\* ptr->field = value, through operator-> of a Ref the thread holds
T_Write(t) ==
    /\ Ready(t, "Write")
    /\ refs[Cur(t).h].live /\ Valid(refs[Cur(t).h])
    /\ LET wr == <<t, Len(prog[t])>>
       IN hb' = [hb EXCEPT !.writes = @ \cup {wr}, !.seen[t] = @ \cup {wr}]
    /\ Finish(t)
    /\ UNCHANGED <<refs, weaks, blk, obj, uaf, locked, scopes, cmp, unsafes>>

\* Ref<T> copy = original, with the order of its fetch_add
T_CopyOrdered(t) ==
    /\ Ready(t, "Copy")
    /\ \E g \in Reads :
         LET r == _CopyConstructFrom(refs[Cur(t).src], World, g)
         IN /\ refs' = [refs EXCEPT ![Cur(t).h] = r.h]
            /\ SetWorld(r.w)
    /\ hb' = Strongs_FetchAdd(hb, t)
    /\ Finish(t)
    /\ UNCHANGED <<weaks, locked, scopes, cmp, unsafes>>

\* ~Ref, _DecRef: m_RefCount && m_RefCount->DecRef() == 0, with the order
\* of its fetch_sub
T_DecRefOrdered(t) ==
    /\ Ready(t, "DropRef")
    /\ LET i == Cur(t).h
           h == refs[i]
       IN IF h.rc = NULL
          THEN /\ refs' = [refs EXCEPT ![i] = NoHandle]
               /\ Finish(t)
               /\ UNCHANGED <<blk, obj, uaf, hb>>
          ELSE \E g \in Reads :
                 /\ SetWorld(DecRef(World, h.rc, g))
                 /\ hb' = Strongs_FetchSub(hb, t)
                 /\ IF DecRefValue(World, h.rc, g) = 0
                    THEN Goto(t, "del") /\ UNCHANGED refs
                    ELSE Finish(t) /\ refs' = [refs EXCEPT ![i] = NoHandle]
    /\ UNCHANGED <<weaks, locked, scopes, cmp, unsafes>>

\* Each thread t in 1..Droppers holds Ref t of one family.  It writes to the
\* object, copies its Ref, drops the original, writes through the copy and
\* drops the copy.
InitOrder ==
    /\ \E ty \in Types :
         /\ OneObject(ty, Droppers, 0)
         /\ refs = [i \in 1..(2 * Droppers) |-> IF i <= Droppers THEN Handle(1, 1, ty) ELSE NoHandle]
    /\ weaks = <<>>
    /\ pc = [t \in 1..Droppers |-> "ready"]
    /\ prog = [t \in 1..Droppers |->
                 <<Op("Write", t, 0), Op("Copy", t + Droppers, t), Op("DropRef", t, 0),
                   Op("Write", t + Droppers, 0), Op("DropRef", t + Droppers, 0)>>]
    /\ hb = [writes |-> {}, rel |-> {}, seen |-> [t \in 1..Droppers |-> {}], sync |-> [t \in 1..Droppers |-> <<>>]]

NextOrder ==
    \/ \E t \in Threads : T_Write(t)
    \/ \E t \in Threads : T_CopyOrdered(t)
    \/ \E t \in Threads : T_DecRefOrdered(t)
    \/ \E t \in Threads : T_Delete(t)
    \/ \E t \in Threads : T_CheckWeaks(t)
    \/ \E t \in Threads : T_Free(t)

SpecOrder == InitOrder /\ [][NextOrder]_vars

\* ------------------------------------------------------------ vocabulary
\* The live Ref / WeakRef variables whose m_RefCount is block b.
LiveRefsOn(b) == {i \in DOMAIN refs : refs[i].live /\ refs[i].rc = b}
LiveWeaksOn(b) == {j \in DOMAIN weaks : weaks[j].live /\ weaks[j].rc = b}
Wrapped(p) == obj[p].st # "unalloc"

\* ----------------------------------------------------------------- C1
\* C1: for a resource wrapped once, under copy, move, the assignments, Reset,
\* weak-construct, Lock and destruction, the deleter runs on it in exactly the
\* steps that take the strong count of its control block from 1 to 0, never
\* more than once, and it has run once (strong count 0) whenever no Ref on
\* that block is left.
C1_DeleterOnceOnLastDrop ==
    /\ [](\A p \in Addrs : Wrapped(p) =>
            /\ obj[p].dels <= 1
            /\ LiveRefsOn(obj[p].cb) = {} => (obj[p].dels = 1 /\ blk[obj[p].cb].strongs = 0))
    /\ [][\A p \in Addrs : Wrapped(p) =>
            ((obj'[p].dels # obj[p].dels)
                <=> (blk[obj[p].cb].strongs = 1 /\ blk'[obj[p].cb].strongs = 0))]_vars

\* Every Ref of a wrapped resource has been dropped and its deleter has run.
C1_Witness ==
    /\ \A i \in RefSlots : ~refs[i].live
    /\ \E p \in Addrs : obj[p].dels = 1 /\ blk[obj[p].cb].strongs = 0

\* ----------------------------------------------------------------- C2
\* C2: a live Ref that stores a non-null pointer (one returned by Lock
\* included) points to an object that has not been destroyed; and the step in
\* which the last Ref on a block goes away (in scenario C: dropping L after S
\* was reset) destroys the object and leaves every WeakRef on the block expired.
C2_NoDanglingRef ==
    /\ [](\A i \in RefSlots : (refs[i].live /\ refs[i].ptr # NULL) => obj[refs[i].ptr].st = "live")
    /\ [][\A p \in Addrs : (Wrapped(p) /\ LiveRefsOn(obj[p].cb) # {} /\ LiveRefsOn(obj[p].cb)' = {}) =>
            /\ obj'[p].st = "destroyed"
            /\ \A j \in WeakSlots : (weaks'[j].live /\ weaks'[j].rc = obj[p].cb) => Expired(weaks'[j], World', 0)]_vars

\* Scenario C after "reset S": the Ref left on the block is alone, an observer
\* watches, the object is alive.
C2_Witness ==
    \E i, k \in RefSlots, j \in WeakSlots :
         /\ refs[k] = EmptyHandle
         /\ refs[i].live /\ refs[i].ptr # NULL /\ obj[refs[i].ptr].st = "live"
         /\ weaks[j].live /\ weaks[j].rc = refs[i].rc
         /\ LiveRefsOn(refs[i].rc) = {i}
         /\ ~Expired(weaks[j], World, 0)

\* ----------------------------------------------------------------- C3
\* C3: RefCount() of every non-empty Ref equals the number of live Refs that
\* reference the same control block.
C3_RefCountIsHandleCount ==
    \A i \in RefSlots : (refs[i].live /\ refs[i].rc # NULL) =>
        _RefCount(refs[i], World, 0) = Cardinality(LiveRefsOn(refs[i].rc))

\* Scenario A after the copy: two Refs on one block, RefCount() is 2.
C3_Witness ==
    \E i, k \in RefSlots :
        /\ i # k /\ refs[i].live /\ refs[k].live
        /\ refs[i].rc # NULL /\ refs[k].rc = refs[i].rc
        /\ _RefCount(refs[i], World, 0) = 2

\* ----------------------------------------------------------------- C4
\* C4: Lock on a non-expired WeakRef returns a non-empty Ref on the observer's
\* control block and adds exactly one to the strong count; Lock on an expired
\* or empty WeakRef returns an empty Ref and changes neither counter.
C4_LockIncrementsByOne ==
    [][\A i \in RefSlots, j \in WeakSlots : RefLock(i, j) =>
         IF weaks[j].rc # NULL /\ blk[weaks[j].rc].strongs # 0
         THEN /\ refs'[i].live /\ refs'[i].ptr # NULL
              /\ refs'[i].rc = weaks[j].rc
              /\ blk'[weaks[j].rc].strongs = blk[weaks[j].rc].strongs + 1
              /\ blk'[weaks[j].rc].weaks = blk[weaks[j].rc].weaks
         ELSE /\ refs'[i] = EmptyHandle
              /\ blk' = blk]_vars

\* A Lock has just produced a second owner next to the original Ref.
C4_Witness ==
    /\ locked.live /\ locked.ptr # NULL
    /\ blk[locked.rc].strongs = 2
    /\ Cardinality(LiveRefsOn(locked.rc)) = 2

\* ----------------------------------------------------------------- C5
\* C5: a WeakRef attached to a control block is not Expired() in any state in
\* which a live Ref references that block, and Expired() turns true in exactly
\* the steps in which the last such Ref stops referencing the block (it is
\* destroyed, reset, assigned to, or released).
C5_ExpiredAtLastDrop ==
    /\ [](\A j \in WeakSlots : (weaks[j].live /\ weaks[j].rc # NULL /\ LiveRefsOn(weaks[j].rc) # {}) =>
            ~Expired(weaks[j], World, 0))
    /\ [][\A j \in WeakSlots : (weaks[j].live /\ weaks[j].rc # NULL /\ weaks'[j] = weaks[j]) =>
            ((~Expired(weaks[j], World, 0) /\ Expired(weaks'[j], World', 0))
                <=> (LiveRefsOn(weaks[j].rc) # {} /\ LiveRefsOn(weaks[j].rc)' = {}))]_vars

\* The observer of Example-WeakRef after the only Ref was reset.
C5_Witness ==
    /\ \E i \in RefSlots : refs[i] = EmptyHandle
    /\ \E j \in WeakSlots :
         /\ weaks[j].live /\ weaks[j].rc # NULL
         /\ LiveRefsOn(weaks[j].rc) = {}
         /\ Expired(weaks[j], World, 0)

\* ----------------------------------------------------------------- C6
\* C6: while one thread drops the last Ref and others call Lock on their
\* WeakRefs, the object is destroyed exactly once (never twice, and once when
\* all threads are done), and a Ref that Lock has returned with a non-null
\* pointer refers to an object that is not destroyed.
C6_LockRaceSafe ==
    /\ obj[1].dels <= 1
    /\ (\A t \in Threads : Done(t)) => obj[1].dels = 1
    /\ \A t \in Threads \ {0} :
         (Ready(t, "DropRef") /\ refs[Cur(t).h].ptr # NULL) => obj[refs[Cur(t).h].ptr].st = "live"

\* ----------------------------------------------------------------- C7
\* C7: while the threads of scenario D copy the original Ref and drop their
\* copies and the original is still held, the strong count is at least 1 and
\* the deleter has not run; once all of them have finished, RefCount() of the
\* original is 1.
C7_CopyDropKeepsCount ==
    (prog[0] # <<>> /\ pc[0] = "ready") =>
        /\ blk[1].strongs >= 1
        /\ obj[1].dels = 0 /\ obj[1].st = "live"
        /\ (\A t \in Threads \ {0} : Done(t)) => _RefCount(refs[0], World, 0) = 1

\* All copy+drop cycles are over and joined; the original is still in scope.
C7_Witness ==
    /\ Ready(0, "DropRef")
    /\ \A t \in Threads \ {0} : Done(t)
    /\ _RefCount(refs[0], World, 0) = 1
    /\ obj[1].dels = 0

\* ----------------------------------------------------------------- C8
\* C8: when the last Ref and the last WeakRef of a control block are dropped
\* by different threads at the same time, the control block is deallocated
\* exactly once (never twice, and once when all threads are done) and no
\* thread accesses a counter of the block after its deallocation.
C8_DropRaceSafe ==
    /\ blk[1].frees <= 1
    /\ ~uaf
    /\ (\A t \in Threads : Done(t)) => blk[1].frees = 1

\* ----------------------------------------------------------------- C9
\* C9: a control block is created with strong count 1 and weak count 0, is
\* deallocated only in a step after which both counters are zero, and no live
\* Ref or WeakRef references a control block that is not allocated.
C9_ControlBlockLifecycle ==
    /\ [](/\ \A i \in RefSlots : (refs[i].live /\ refs[i].rc # NULL) => blk[refs[i].rc].st = "live"
          /\ \A j \in WeakSlots : (weaks[j].live /\ weaks[j].rc # NULL) => blk[weaks[j].rc].st = "live"
          /\ ~uaf)
    /\ [][\A b \in Blocks :
            /\ (blk[b].st = "unalloc" /\ blk'[b].st # "unalloc") =>
                   (blk'[b].st = "live" /\ blk'[b].strongs = 1 /\ blk'[b].weaks = 0)
            /\ (blk[b].st = "live" /\ blk'[b].st # "live") =>
                   (blk'[b].st = "freed" /\ blk'[b].strongs = 0 /\ blk'[b].weaks = 0)]_vars

\* A control block has been deallocated and an observer that was reset is
\* still in scope.
C9_Witness ==
    /\ \E j \in WeakSlots : weaks[j] = EmptyHandle
    /\ \E p \in Addrs : obj[p].st = "destroyed" /\ blk[obj[p].cb].st = "freed" /\ blk[obj[p].cb].frees = 1

\* ---------------------------------------------------------------- C10
\* C10: once no Ref and no WeakRef of a family is left, in whatever order they
\* went, the object has been destroyed exactly once and the control block
\* deallocated exactly once; neither happens twice at any time.
C10_FamilyFullyReclaimed ==
    \A p \in Addrs : Wrapped(p) =>
        /\ obj[p].dels <= 1 /\ blk[obj[p].cb].frees <= 1
        /\ (LiveRefsOn(obj[p].cb) = {} /\ LiveWeaksOn(obj[p].cb) = {}) =>
               (obj[p].dels = 1 /\ blk[obj[p].cb].frees = 1)

\* A family is gone entirely: no Ref and no WeakRef is left.
C10_Witness ==
    /\ \A i \in RefSlots : ~refs[i].live
    /\ \A j \in WeakSlots : ~weaks[j].live
    /\ \E p \in Addrs : obj[p].dels = 1 /\ blk[obj[p].cb].frees = 1

\* ---------------------------------------------------------------- C11
\* C11: for an object of class DerivedClass wrapped through a Ref<BaseClass>,
\* every Ref and WeakRef on its control block (obtained by copy, move,
\* assignment, weak-construct, Lock or a cast) carries the deleter of
\* DerivedClass, and the step that takes the strong count of the block from 1
\* to 0 runs that deleter on the object, whichever handle is dropped.
C11_DerivedDeleterOnLastDrop ==
    /\ [](\A p \in Addrs : Wrapped(p) =>
            /\ \A i \in LiveRefsOn(obj[p].cb) : refs[i].del = obj[p].type
            /\ \A j \in LiveWeaksOn(obj[p].cb) : weaks[j].del = obj[p].type)
    /\ [][\A p \in Addrs : (Wrapped(p) /\ blk[obj[p].cb].strongs = 1 /\ blk'[obj[p].cb].strongs = 0) =>
            (obj'[p].dels = obj[p].dels + 1 /\ obj'[p].by = obj[p].type)]_vars

\* ---------------------------------------------------------------- C12
\* C12: a Ref A alias-constructed from a live Ref, storing the address of a
\* sub-object of the owner's object, keeps that object from being destroyed
\* while A is live, whatever happens to the original handles; and the step
\* that drops A as the last Ref of the control block destroys the (not
\* released) original object, which has then been destroyed exactly once.
C12_AliasKeepsThenDestroys ==
    /\ [](\A p \in Addrs, i \in RefSlots :
            (Wrapped(p) /\ refs[i].live /\ refs[i].ptr = Sub(p) /\ refs[i].rc = obj[p].cb) =>
                obj[p].st # "destroyed")
    /\ [][\A p \in Addrs, i \in RefSlots :
            (/\ obj[p].st = "live"
             /\ refs[i].live /\ refs[i].ptr = Sub(p) /\ refs[i].rc = obj[p].cb
             /\ LiveRefsOn(obj[p].cb) = {i}
             /\ LiveRefsOn(obj[p].cb)' = {}) =>
                (obj'[p].st = "destroyed" /\ obj'[p].dels = 1)]_vars

\* ---------------------------------------------------------------- C13
\* C13: a DynamicRefCast by copy whose dynamic_cast yields nullptr returns a
\* Ref that stores nullptr (Valid() is false), references the control block
\* of its argument and has added exactly one to the strong count, the
\* argument being left as it was; and as long as a Ref that stores nullptr
\* and references a control block is live, the object of that block is not
\* destroyed, whatever other Refs have been dropped.
C13_FailedCastPinsObject ==
    /\ [](\A i \in RefSlots, p \in Addrs :
            (refs[i].live /\ refs[i].ptr = NULL /\ refs[i].rc # NULL /\ obj[p].cb = refs[i].rc) =>
                (obj[p].st = "live" /\ obj[p].dels = 0))
    /\ [][\A i, k \in RefSlots, c \in Classes :
            (refs[k].rc # NULL /\ DynamicCast(World, refs[k].ptr, c) = NULL /\ DynamicRefCast(i, k, c)) =>
                /\ refs'[i].live /\ refs'[i].ptr = NULL
                /\ refs'[i].rc = refs[k].rc
                /\ blk'[refs[k].rc].strongs = blk[refs[k].rc].strongs + 1
                /\ refs'[k] = refs[k]]_vars

\* Right after the failed cast by copy: the argument still points to the
\* object, the result stores nullptr on the same control block, RefCount() is 2.
C13_Witness ==
    \E i, k \in RefSlots :
        /\ refs[k].live /\ refs[k].ptr \in Addrs
        /\ refs[i].live /\ refs[i].ptr = NULL /\ refs[i].rc = refs[k].rc
        /\ blk[refs[k].rc].strongs = 2
        /\ obj[refs[k].ptr].st = "live"

\* ---------------------------------------------------------------- C14
\* C14: when a Ref that stores nullptr and references the control block of an
\* object (the result of a failed DynamicRefCast, by copy with the other Refs
\* dropped first or by move from the sole owner) is the Ref whose drop takes
\* the strong count from 1 to 0, that step runs the deleter on the object,
\* which has then been destroyed exactly once.
C14_FailedCastLastDropDestroys ==
    [][\A p \in Addrs, i \in RefSlots :
            (/\ obj[p].st = "live"
             /\ refs[i].live /\ refs[i].ptr = NULL /\ refs[i].rc = obj[p].cb
             /\ blk[obj[p].cb].strongs = 1 /\ blk'[obj[p].cb].strongs = 0) =>
                (obj'[p].st = "destroyed" /\ obj'[p].dels = 1)]_vars

\* ---------------------------------------------------------------- C15
\* C15: in every state reached by construction, copy, move, the aliasing
\* constructors, the casts, Lock, Reset, Release and Swap, each live Ref
\* stores a non-null pointer if and only if it references a control block
\* and the strong count of that block is at least 1.
C15_PtrIffOwned ==
    \A i \in RefSlots : refs[i].live =>
        ((refs[i].ptr # NULL) <=> (refs[i].rc # NULL /\ _RefCount(refs[i], World, 0) >= 1))

\* ---------------------------------------------------------------- C16
\* C16 as stated: Release hands out the stored address, leaves the Ref empty,
\* runs no deleter, and leaves the strong count of the control block the Ref
\* referenced as it was before the call.
C16_ReleaseKeepsCount ==
    [][\A i \in RefSlots : (refs[i].live /\ refs[i].rc # NULL /\ RefRelease(i)) =>
         /\ refs'[i] = EmptyHandle
         /\ refs[i].ptr # NULL => obj'[refs[i].ptr].st = "released"
         /\ \A p \in DOMAIN obj : obj'[p].dels = obj[p].dels
         /\ blk'[refs[i].rc].strongs = blk[refs[i].rc].strongs]_vars

\* C16, amended: Release hands out the stored address, leaves the Ref empty
\* and runs no deleter, and gives up the Ref's share of the control block: the
\* strong count is one less after the call than before it, and the control
\* block is deallocated when that leaves no owner and no observer.  Release
\* of an empty Ref changes nothing.
C16_ReleaseDropsShare ==
    [][\A i \in RefSlots : (refs[i].live /\ RefRelease(i)) =>
         IF refs[i].rc # NULL
         THEN /\ refs'[i] = EmptyHandle
              /\ refs[i].ptr # NULL => obj'[refs[i].ptr].st = "released"
              /\ \A p \in DOMAIN obj : obj'[p].dels = obj[p].dels
              /\ blk'[refs[i].rc].strongs = blk[refs[i].rc].strongs - 1
              /\ blk'[refs[i].rc].weaks = blk[refs[i].rc].weaks
              /\ (blk'[refs[i].rc].st = "freed") <=>
                     (blk'[refs[i].rc].strongs = 0 /\ blk'[refs[i].rc].weaks = 0)
         ELSE /\ refs'[i] = EmptyHandle
              /\ blk' = blk /\ obj' = obj]_vars

\* Release was called on one of two Refs of an object: the address is with the
\* caller, no deleter has run, the other Ref is alone on the control block.
C16_Witness ==
    \E p \in Addrs, i, k \in RefSlots :
        /\ obj[p].st = "released" /\ obj[p].dels = 0
        /\ refs[i] = EmptyHandle
        /\ refs[k].live /\ refs[k].ptr = p /\ refs[k].rc = obj[p].cb
        /\ blk[obj[p].cb].strongs = 1

\* ---------------------------------------------------------------- C17
\* C17: once Release has handed out the address of an object, no operation
\* on a Ref or WeakRef that still references the control block (a copy made
\* before the Release included) runs the deleter on that object.
C17_ReleasedNeverDeleted ==
    [][\A p \in Addrs : obj[p].st = "released" =>
         (obj'[p].st = "released" /\ obj'[p].dels = obj[p].dels)]_vars

\* ---------------------------------------------------------------- C18
\* C18: constructing a WeakRef from a Ref or from a WeakRef, and copying,
\* moving, assigning, resetting or destroying WeakRefs, changes no strong
\* count and runs no deleter; constructing one from a non-empty handle adds
\* exactly one to the weak count of its control block, destroying or
\* resetting a non-empty one takes exactly one off; and the weak count of a
\* control block is the number of live WeakRefs that reference it.
C18_WeakOpsTouchWeakCountOnly ==
    /\ [](\A b \in Blocks : blk[b].st = "live" => blk[b].weaks = Cardinality(LiveWeaksOn(b)))
    /\ [][/\ (/\ refs' = refs
              /\ \/ \E j \in WeakSlots : WeakNull(j) \/ WeakDtor(j) \/ WeakAssignNull(j) \/ WeakReset(j)
                 \/ \E j \in WeakSlots, i \in RefSlots : WeakFromRef(j, i) \/ WeakAssignRef(j, i)
                 \/ \E j, k \in WeakSlots :
                       WeakCopy(j, k) \/ WeakMove(j, k) \/ WeakCopyAssign(j, k) \/ WeakMoveAssign(j, k)) =>
                    /\ \A b \in Blocks : blk'[b].strongs = blk[b].strongs
                    /\ \A p \in Addrs : obj'[p].dels = obj[p].dels /\ obj'[p].st = obj[p].st
          /\ \A j \in WeakSlots, i \in RefSlots : (refs[i].rc # NULL /\ WeakFromRef(j, i)) =>
                 blk'[refs[i].rc].weaks = blk[refs[i].rc].weaks + 1
          /\ \A j, k \in WeakSlots : (weaks[k].rc # NULL /\ WeakCopy(j, k)) =>
                 blk'[weaks[k].rc].weaks = blk[weaks[k].rc].weaks + 1
          /\ \A j \in WeakSlots : (weaks[j].rc # NULL /\ (WeakDtor(j) \/ WeakReset(j))) =>
                 blk'[weaks[j].rc].weaks = blk[weaks[j].rc].weaks - 1]_vars

\* Two observers were constructed on the block of a live object: weak count
\* 2, strong count 1, no deleter run.
C18_Witness ==
    \E p \in Addrs :
        /\ obj[p].st = "live" /\ obj[p].dels = 0
        /\ blk[obj[p].cb].strongs = 1
        /\ blk[obj[p].cb].weaks = 2
        /\ Cardinality(LiveWeaksOn(obj[p].cb)) = 2

\* ---------------------------------------------------------------- C19
\* C19 as stated: move construction and move assignment of a Ref or a WeakRef
\* give the destination the pointer, control block and deleter of the source,
\* leave the source empty, and leave the strong and the weak count of the
\* transferred control block as they were.
C19_MoveLeavesCounts ==
    [][/\ \A i, k \in RefSlots :
            (refs[k].live /\ (RefMove(i, k) \/ RefMoveAssign(i, k))) =>
                /\ refs'[i] = refs[k] /\ refs'[k] = EmptyHandle
                /\ refs[k].rc # NULL => blk'[refs[k].rc] = blk[refs[k].rc]
       /\ \A j, k \in WeakSlots :
            (weaks[k].live /\ (WeakMove(j, k) \/ WeakMoveAssign(j, k))) =>
                /\ weaks'[j] = weaks[k] /\ weaks'[k] = EmptyHandle
                /\ weaks[k].rc # NULL => blk'[weaks[k].rc] = blk[weaks[k].rc]]_vars

\* C19, amended: move construction, and move assignment from another handle,
\* give the destination the pointer, control block and deleter of the source
\* and leave the source empty.  They leave the strong and the weak count of
\* the transferred control block as they were, except that a move assignment
\* to a destination that already referenced that same control block gives up
\* the destination's previous share: the strong count (for WeakRefs the weak
\* count) is one less.  A move construction changes no counter at all.
C19_MoveTransfers ==
    [][/\ \A i, k \in RefSlots :
            /\ (~refs[i].live /\ refs'[i].live /\ RefMove(i, k)) =>
                   /\ refs'[i] = refs[k] /\ refs'[k] = EmptyHandle
                   /\ blk' = blk /\ obj' = obj
            /\ (i # k /\ refs[i].live /\ refs[k].live /\ RefMoveAssign(i, k)) =>
                   /\ refs'[i] = refs[k] /\ refs'[k] = EmptyHandle
                   /\ refs[k].rc # NULL =>
                          /\ blk'[refs[k].rc].strongs =
                                 blk[refs[k].rc].strongs - (IF refs[i].rc = refs[k].rc THEN 1 ELSE 0)
                          /\ blk'[refs[k].rc].weaks = blk[refs[k].rc].weaks
                          /\ blk'[refs[k].rc].st = blk[refs[k].rc].st
       /\ \A j, k \in WeakSlots :
            /\ (~weaks[j].live /\ weaks'[j].live /\ WeakMove(j, k)) =>
                   /\ weaks'[j] = weaks[k] /\ weaks'[k] = EmptyHandle
                   /\ blk' = blk /\ obj' = obj
            /\ (j # k /\ weaks[j].live /\ weaks[k].live /\ WeakMoveAssign(j, k)) =>
                   /\ weaks'[j] = weaks[k] /\ weaks'[k] = EmptyHandle
                   /\ weaks[k].rc # NULL =>
                          /\ blk'[weaks[k].rc].weaks =
                                 blk[weaks[k].rc].weaks - (IF weaks[j].rc = weaks[k].rc THEN 1 ELSE 0)
                          /\ blk'[weaks[k].rc].strongs = blk[weaks[k].rc].strongs
                          /\ blk'[weaks[k].rc].st = blk[weaks[k].rc].st]_vars

\* After a = std::move(b) with a and b on one control block: b is empty, a
\* holds the object alone, and an observer moved from another is in place.
C19_Witness ==
    \E i, k \in RefSlots, j, l \in WeakSlots :
        /\ refs[k] = EmptyHandle
        /\ refs[i].live /\ refs[i].ptr # NULL
        /\ blk[refs[i].rc].strongs = 1
        /\ weaks[l] = EmptyHandle
        /\ weaks[j].live /\ weaks[j].rc = refs[i].rc
        /\ blk[refs[i].rc].weaks = 1

\* ---------------------------------------------------------------- C20
\* C20: StaticRefCast, DynamicRefCast, ReinterpretRefCast and ConstRefCast of
\* a Ref that references a control block return a Ref with the same control
\* block and deleter; by copy the strong count is one more and the argument
\* is unchanged, by move the counters are unchanged and the argument is left
\* empty.
C20_CastsShareBlock ==
    [][\A i, k \in RefSlots : (refs[k].live /\ refs[k].rc # NULL /\ ~refs[i].live /\ refs'[i].live) =>
         /\ (\/ StaticRefCast(i, k) \/ ReinterpretRefCast(i, k) \/ ConstRefCast(i, k)
             \/ \E c \in Classes : DynamicRefCast(i, k, c)) =>
                /\ refs'[i].rc = refs[k].rc /\ refs'[i].del = refs[k].del
                /\ blk'[refs[k].rc].strongs = blk[refs[k].rc].strongs + 1
                /\ blk'[refs[k].rc].weaks = blk[refs[k].rc].weaks
                /\ refs'[k] = refs[k]
         /\ (\/ StaticRefCastMove(i, k) \/ ReinterpretRefCastMove(i, k) \/ ConstRefCastMove(i, k)
             \/ \E c \in Classes : DynamicRefCastMove(i, k, c)) =>
                /\ refs'[i].rc = refs[k].rc /\ refs'[i].del = refs[k].del
                /\ blk' = blk
                /\ refs'[k] = EmptyHandle]_vars

\* A cast by move has acted on the sole owner and its dynamic_cast failed: the
\* argument is empty, the result holds the control block and the deleter of
\* DerivedClass with strong count 1.
C20_Witness ==
    \E i, k \in RefSlots, p \in Addrs :
        /\ refs[k] = EmptyHandle
        /\ refs[i].live /\ refs[i].ptr = NULL
        /\ refs[i].rc = obj[p].cb /\ refs[i].rc # NULL
        /\ refs[i].del = "DerivedClass"
        /\ blk[refs[i].rc].strongs = 1
        /\ obj[p].st = "live"

\* ---------------------------------------------------------------- C21
\* C21: move construction and move assignment of a Scope from another Scope
\* leave the source empty (no pointer, no deleter) and the destination
\* holding the source's pointer and deleter, and run no deleter on the object
\* moved; the deleter never runs twice on an object, an object that is neither
\* destroyed nor released is held by a live Scope, and so, once both Scopes
\* are destroyed, in either order, the deleter has run on it exactly once.
C21_ScopeMoveDeletesOnce ==
    /\ [](\A p \in ScopeAddrs :
            /\ obj[p].dels <= 1
            /\ obj[p].st = "destroyed" => obj[p].dels = 1
            /\ obj[p].st = "live" => \E s \in ScopeSlots : scopes[s].live /\ scopes[s].ptr = p)
    /\ [][\A s, k \in ScopeSlots :
            (s # k /\ scopes[k].live /\ (ScopeMove(s, k) \/ ScopeMoveAssign(s, k))) =>
                /\ scopes'[k] = EmptyScope
                /\ scopes'[s] = scopes[k]
                /\ scopes[k].ptr # NULL => obj'[scopes[k].ptr] = obj[scopes[k].ptr]]_vars

\* Example-Scope after the move of constructedScope and the end of both
\* scopes: no Scope is left and the object has been destroyed once.
C21_Witness ==
    /\ \A s \in ScopeSlots : ~scopes[s].live
    /\ \E p \in ScopeAddrs : obj[p].st = "destroyed" /\ obj[p].dels = 1
    /\ \A p \in ScopeAddrs : obj[p].st # "released"

\* ---------------------------------------------------------------- C22
\* C22: for an object wrapped once into a Scope, whatever sequence of move
\* construction, move assignment, Swap, Reset, Release and destruction is
\* performed, at most one live Scope stores its address.
C22_OneScopePerObject ==
    \A p \in ScopeAddrs : Cardinality({s \in ScopeSlots : scopes[s].live /\ scopes[s].ptr = p}) <= 1

\* One Scope holds a live object; another has given up its object through
\* Release (no pointer, the deleter left behind).
C22_Witness ==
    \E s, k \in ScopeSlots :
        /\ s # k /\ scopes[s].live /\ scopes[k].live
        /\ scopes[s].ptr # NULL /\ obj[scopes[s].ptr].st = "live"
        /\ scopes[k].ptr = NULL /\ scopes[k].del # NoDeleter

\* ---------------------------------------------------------------- C23
\* C23: Scope::Release hands out the address held, leaves the Scope without
\* a pointer (Valid() false) and runs no deleter, and no later step (the
\* Scope's destruction included) runs a deleter on the object handed out;
\* Reset() and assignment of nullptr run the deleter once on the object held
\* and leave the Scope empty; Reset(p) destroys the object held before and
\* makes the Scope hold p; the destructor runs the deleter exactly when the
\* Scope still holds an object, and on that object.
C23_ScopeReleaseResetDtor ==
    [][/\ \A p \in ScopeAddrs : obj[p].st = "released" => obj'[p] = obj[p]
       /\ \A s \in ScopeSlots : scopes[s].live =>
            LET p == scopes[s].ptr
                Others == ScopeAddrs \ {p}
            IN /\ ScopeRelease(s) =>
                    /\ scopes'[s].live /\ scopes'[s].ptr = NULL
                    /\ p # NULL => obj'[p].st = "released"
                    /\ \A q \in ScopeAddrs : obj'[q].dels = obj[q].dels
               /\ (ScopeReset(s) \/ ScopeAssignNull(s)) =>
                    /\ scopes'[s] = EmptyScope
                    /\ p # NULL => (obj'[p].st = "destroyed" /\ obj'[p].dels = 1 /\ obj[p].dels = 0)
                    /\ \A q \in Others : obj'[q] = obj[q]
               /\ ScopeResetRaw(s) =>
                    /\ p # NULL => (obj'[p].st = "destroyed" /\ obj'[p].dels = 1 /\ obj[p].dels = 0)
                    /\ scopes'[s].live /\ scopes'[s].ptr \in Others
                    /\ obj[scopes'[s].ptr].st = "unalloc" /\ obj'[scopes'[s].ptr].st = "live"
                    /\ scopes'[s].del = obj'[scopes'[s].ptr].type
               /\ ScopeDtor(s) =>
                    /\ (p # NULL) <=> (\E q \in ScopeAddrs : obj'[q].dels # obj[q].dels)
                    /\ p # NULL => (obj'[p].st = "destroyed" /\ obj'[p].dels = 1 /\ obj[p].dels = 0)
                    /\ \A q \in Others : obj'[q] = obj[q]]_vars

\* Example-Scope after intScope.Release() and the end of intScope: the
\* object is with the caller, no deleter has run on it, no Scope is left;
\* another object, still held when its Scope ended or was reset, is destroyed.
C23_Witness ==
    /\ \A s \in ScopeSlots : ~scopes[s].live
    /\ \E p \in ScopeAddrs : obj[p].st = "released" /\ obj[p].dels = 0
    /\ \E p \in ScopeAddrs : obj[p].st = "destroyed" /\ obj[p].dels = 1

\* ---------------------------------------------------------------- C24
\* C24: a Scope that holds an object carries the deleter of the object's
\* concrete class, recorded when the Scope was constructed from the pointer,
\* through every move construction, move assignment (into a Scope<BaseClass>
\* included) and Swap; and an object destroyed through a Scope has been
\* destroyed by the deleter of its concrete class.
C24_ScopeDeleterOfConcreteType ==
    /\ \A s \in ScopeSlots : (scopes[s].live /\ scopes[s].ptr # NULL) => scopes[s].del = obj[scopes[s].ptr].type
    /\ \A p \in ScopeAddrs : obj[p].st = "destroyed" => obj[p].by = obj[p].type

\* Example-Scope after baseClassScope.Reset(): the DerivedClass object held
\* by the Scope<BaseClass> has been destroyed by the deleter of DerivedClass.
C24_Witness ==
    \E p \in ScopeAddrs :
        /\ obj[p].type = "DerivedClass"
        /\ obj[p].st = "destroyed" /\ obj[p].by = "DerivedClass"
        /\ \E s \in ScopeSlots : scopes[s] = EmptyScope

\* ---------------------------------------------------------------- C25
\* The operand kinds C25 speaks of: two Refs, two WeakRefs, a handle and a
\* raw pointer, a handle and nullptr.
C25_Pairs ==
    {<<"Ref", "Ref">>, <<"WeakRef", "WeakRef">>}
      \cup {<<h, k>> : h \in {"Ref", "WeakRef"}, k \in {"raw", "nullptr"}}
      \cup {<<k, h>> : h \in {"Ref", "WeakRef"}, k \in {"raw", "nullptr"}}

\* C25: every equality or ordering operator applied to two Refs, to two
\* WeakRefs, or to a handle and a raw pointer or nullptr yields the comparison
\* of the two stored addresses, whatever the control blocks are: equal
\* addresses of different control blocks compare equal, different addresses
\* of one control block compare unequal.
C25_ComparesStoredAddresses ==
    (cmp.res # "none" /\ <<cmp.left.kind, cmp.right.kind>> \in C25_Pairs) =>
        cmp.res = Result(PtrCompare(cmp.op, Raw(cmp.left), Raw(cmp.right)))

\* ---------------------------------------------------------------- C26
\* C26: a promotion reads the strong count in steps of their own (Expired,
\* then the test of _ConstructFromWeak), which leave the counters as they are
\* and go on only when the value read is not zero, and increments it in a
\* later step, which adds one to whatever the count is by then; so when the
\* drop of the last Ref falls between the reads and the increment, the
\* promotion increments the strong count from 0.
C26_PromotionReadsThenIncrements ==
    [][\A t \in Threads \ {0} :
         /\ (pc[t] = "ready" /\ pc'[t] = "cfw") => (blk' = blk /\ blk[1].strongs # 0)
         /\ (pc[t] = "cfw" /\ pc'[t] = "inc") => (blk' = blk /\ blk[1].strongs # 0)
         /\ (pc[t] = "inc" /\ pc'[t] # "inc") =>
                /\ blk'[1].strongs = blk[1].strongs + 1
                /\ refs'[t] = weaks[t]]_vars

\* One promotion has returned a non-empty Ref, no other has begun, and the
\* thread that held the only Ref has decremented the count to zero and
\* destroyed the object: the count of 1 is the result of an increment from 0.
C26_Witness ==
    \E t \in Threads \ {0} :
        /\ Ready(t, "DropRef") /\ refs[t].live /\ refs[t].ptr # NULL
        /\ \A u \in Threads \ {0, t} : Ready(u, "Lock")
        /\ pc[0] # "ready" \/ Done(0)
        /\ obj[1].st = "destroyed"
        /\ blk[1].st = "live" /\ blk[1].strongs = 1

\* ---------------------------------------------------------------- C27
\* C27: a step that takes the strong count of a control block from 1 to 0
\* invokes the deleter on the block's object and deallocates the block if and
\* only if the weak count is zero; a strong decrement with a nonzero result
\* destroys nothing and deallocates nothing; and a control block is never
\* deallocated before its object has been destroyed.
C27_ZeroDecrementDestroysThenFrees ==
    /\ [](\A p \in Addrs : (obj[p].cb # NULL /\ blk[obj[p].cb].st = "freed") => obj[p].st = "destroyed")
    /\ [][\A b \in Blocks :
            /\ (blk[b].st = "live" /\ blk[b].strongs = 1 /\ blk'[b].strongs = 0) =>
                   /\ \E p \in Addrs : obj[p].cb = b /\ obj'[p].dels = obj[p].dels + 1
                   /\ blk'[b].st = "freed" <=> blk[b].weaks = 0
            /\ (blk[b].st = "live" /\ blk'[b].strongs >= 1 /\ blk'[b].strongs < blk[b].strongs) =>
                   (obj' = obj /\ blk'[b].st = "live")]_vars

\* ---------------------------------------------------------------- C28
\* C28: a step that decrements the weak count of a control block leaves every
\* object as it is (no deleter runs) and the strong count unchanged, and it
\* deallocates the block if and only if the weak count has become zero and the
\* strong count is zero; so with a strong count of at least 1 the block stays
\* allocated and the object alive however many observers are dropped.
C28_WeakDecrementFreesOnlyExpired ==
    [][\A b \in Blocks :
          (blk[b].st = "live" /\ blk'[b].weaks < blk[b].weaks) =>
              /\ obj' = obj
              /\ blk'[b].strongs = blk[b].strongs
              /\ blk'[b].st = "freed" <=> (blk'[b].weaks = 0 /\ blk[b].strongs = 0)]_vars

\* Every WeakRef variable is in scope and has been emptied, while the object
\* they were made to observe is alive, owned by a Ref, in its control block
\* with no observer left.
C28_Witness ==
    /\ \A j \in WeakSlots : weaks[j] = EmptyHandle
    /\ \E i \in RefSlots, p \in Addrs :
         /\ refs[i].live /\ refs[i].ptr = p /\ refs[i].rc = obj[p].cb
         /\ obj[p].st = "live" /\ obj[p].dels = 0
         /\ blk[obj[p].cb].st = "live" /\ blk[obj[p].cb].strongs >= 1 /\ blk[obj[p].cb].weaks = 0

\* ---------------------------------------------------------------- C29
\* C29: once the strong count of an allocated control block is zero no
\* operation makes it nonzero again, and a deallocated control block never
\* changes again; every WeakRef that references a block whose strong count is
\* zero reports Expired(), and Lock and the construction of a Ref from it
\* yield the empty Ref.
C29_ExpiryIsPermanent ==
    /\ [][\A b \in Blocks :
            /\ (blk[b].st = "live" /\ blk[b].strongs = 0) => blk'[b].strongs = 0
            /\ blk[b].st = "freed" => blk'[b] = blk[b]]_vars
    /\ [](\A j \in WeakSlots :
            (weaks[j].live /\ weaks[j].rc # NULL /\ blk[weaks[j].rc].strongs = 0) =>
                /\ Expired(weaks[j], World, 0)
                /\ Lock(weaks[j], World, 0).h = EmptyHandle
                /\ _ConstructFromWeak(weaks[j], World, 0).h = EmptyHandle
                /\ Lock(weaks[j], World, 0).w = World)

\* Every WeakRef variable observes an object whose strong count has reached
\* zero, the control block is still allocated, and the last operation was a
\* Lock, which returned the empty Ref.
C29_Witness ==
    /\ \A j \in WeakSlots :
         /\ weaks[j].live /\ weaks[j].rc # NULL
         /\ blk[weaks[j].rc].st = "live" /\ blk[weaks[j].rc].strongs = 0
    /\ locked = EmptyHandle

\* ---------------------------------------------------------------- C30
\* C30: a control block is allocated only by a step that wraps a raw pointer
\* (CreateRef, Ref(raw), Reset(raw)), which allocates it for the object it
\* wraps; no copy, move, cast, construction of a WeakRef or promotion
\* allocates one.  So there are as many control blocks as wrapped objects, and
\* every Ref and WeakRef that stores the address of an object references the
\* one control block of that object.
C30_OnlyWrappingAllocates ==
    /\ [][\A b \in Blocks :
            (blk[b].st = "unalloc" /\ blk'[b].st # "unalloc") =>
                /\ \E i \in RefSlots : CreateRef(i) \/ CreateRefDerived(i) \/ RefResetRaw(i)
                /\ \E p \in Addrs, i \in RefSlots :
                     /\ obj[p].st = "unalloc" /\ obj'[p].st = "live" /\ obj'[p].cb = b
                     /\ refs'[i] = Handle(p, b, obj'[p].type)]_vars
    /\ [](/\ Cardinality({b \in Blocks : blk[b].st # "unalloc"}) = Cardinality({p \in Addrs : obj[p].st # "unalloc"})
          /\ \A p, q \in Addrs : (obj[p].cb # NULL /\ obj[p].cb = obj[q].cb) => p = q
          /\ \A i \in RefSlots : (refs[i].live /\ refs[i].ptr # NULL) => refs[i].rc = obj[refs[i].ptr].cb
          /\ \A j \in CastWeakSlots : (weaks[j].live /\ weaks[j].ptr # NULL) => weaks[j].rc = obj[weaks[j].ptr].cb)

\* One wrapped object with its one control block is referenced by two Refs
\* (a copy or a cast of the first) and by a WeakRef: strong count 2, weak
\* count 1, and no other control block exists.
C30_Witness ==
    \E p \in Addrs, i, k \in RefSlots, j \in CastWeakSlots :
        /\ i # k
        /\ obj[p].st = "live"
        /\ refs[i].live /\ refs[i].rc = obj[p].cb
        /\ refs[k].live /\ refs[k].rc = obj[p].cb
        /\ weaks[j].live /\ weaks[j].rc = obj[p].cb
        /\ blk[obj[p].cb].strongs = 2 /\ blk[obj[p].cb].weaks = 1
        /\ Cardinality({b \in Blocks : blk[b].st # "unalloc"}) = 1

\* ---------------------------------------------------------------- C31
\* C31: the step that takes the strong count of a control block to zero while
\* WeakRefs reference it leaves those WeakRefs as they are and the block
\* allocated; and every WeakRef whose block has strong count zero still stores
\* the address of the object that was wrapped with that block, so its Valid()
\* is true, while its Expired() is true and the block is allocated.
C31_ExpiredObserverKeepsAddress ==
    /\ [][\A b \in Blocks :
            (blk[b].st = "live" /\ blk[b].strongs >= 1 /\ blk'[b].strongs = 0) =>
                \A j \in WeakSlots : (weaks[j].live /\ weaks[j].rc = b) =>
                    (weaks'[j] = weaks[j] /\ blk'[b].st = "live")]_vars
    /\ [](\A j \in WeakSlots :
            (weaks[j].live /\ weaks[j].rc # NULL /\ blk[weaks[j].rc].strongs = 0) =>
                /\ blk[weaks[j].rc].st = "live"
                /\ _Raw(weaks[j]) \in Addrs /\ obj[_Raw(weaks[j])].cb = weaks[j].rc
                /\ Valid(weaks[j])
                /\ Expired(weaks[j], World, 0))

\* A WeakRef observes an object that has been destroyed: the strong count of
\* its block is zero, the weak count is not, and it stores the object's address.
C31_Witness ==
    \E j \in WeakSlots, p \in Addrs :
        /\ weaks[j].live /\ _Raw(weaks[j]) = p /\ weaks[j].rc = obj[p].cb
        /\ obj[p].st = "destroyed" /\ obj[p].dels = 1
        /\ blk[obj[p].cb].st = "live" /\ blk[obj[p].cb].strongs = 0 /\ blk[obj[p].cb].weaks >= 1

C33_DeleterGetsWrappedAddress ==
    /\ [](\A q \in Addrs \cup Subs : obj[q].dels > 0 => (q \in Addrs /\ obj[q].cb # NULL))
    /\ [][\A q \in Addrs \cup Subs :
            obj'[q].dels > obj[q].dels =>
                (q \in Addrs /\ obj[q].cb # NULL /\ blk[obj[q].cb].strongs = 1 /\ blk'[obj[q].cb].strongs = 0)]_vars

C35_SwapExchanges ==
    [][/\ \A i, k \in RefSlots :
            (refs[i].live /\ refs[k].live /\ RefSwap(i, k)) =>
                /\ refs'[i] = refs[k] /\ refs'[k] = refs[i]
                /\ \A l \in RefSlots \ {i, k} : refs'[l] = refs[l]
                /\ weaks' = weaks /\ blk' = blk /\ obj' = obj /\ uaf' = uaf
                /\ _Swap(refs'[i], refs'[k]).this = refs[i]
                /\ _Swap(refs'[i], refs'[k]).other = refs[k]
                /\ i = k => refs' = refs
       /\ \A j, k \in WeakSlots :
            (weaks[j].live /\ weaks[k].live /\ WeakSwap(j, k)) =>
                /\ weaks'[j] = weaks[k] /\ weaks'[k] = weaks[j]
                /\ \A l \in WeakSlots \ {j, k} : weaks'[l] = weaks[l]
                /\ refs' = refs /\ blk' = blk /\ obj' = obj /\ uaf' = uaf
                /\ _Swap(weaks'[j], weaks'[k]).this = weaks[j]
                /\ _Swap(weaks'[j], weaks'[k]).other = weaks[k]
                /\ j = k => weaks' = weaks]_vars

\* Two Refs with different fields and two WeakRefs with different fields, one
\* of each pair empty and the other on the control block: a Swap of either
\* pair moves the share from one variable to the other.
C35_Witness ==
    \E i, k \in RefSlots, j, l \in WeakSlots :
        /\ refs[i] = EmptyHandle
        /\ refs[k].live /\ refs[k].rc # NULL /\ Valid(refs[k])
        /\ weaks[j] = EmptyHandle
        /\ weaks[l].live /\ weaks[l].rc = refs[k].rc
        /\ blk[refs[k].rc].strongs = 1 /\ blk[refs[k].rc].weaks = 1
        /\ ENABLED RefSwap(i, k) /\ ENABLED WeakSwap(j, l)

\* ---------------------------------------------------------------- C36
\* C36 (as stated): a = a, a = std::move(a) and a = b with b on the control
\* block of a leave a non-empty Ref a with the pointer and the control block
\* it had, leave the strong count what it was and call no deleter.
C36_AssignmentWithinFamilyIsIdentity ==
    [][\A i, k \in RefSlots :
         /\ (refs[i].live /\ refs[i].rc # NULL /\ refs[k].live /\ refs[k].rc = refs[i].rc
                 /\ RefCopyAssign(i, k)) =>
                /\ refs'[i].ptr = refs[i].ptr /\ refs'[i].rc = refs[i].rc
                /\ blk' = blk /\ obj' = obj /\ uaf' = uaf
         /\ (i = k /\ refs[i].live /\ refs[i].rc # NULL /\ RefMoveAssign(i, k)) =>
                /\ refs'[i].ptr = refs[i].ptr /\ refs'[i].rc = refs[i].rc
                /\ blk' = blk /\ obj' = obj /\ uaf' = uaf]_vars

\* C36 (amended): the same three assignments leave a with the control block
\* it had, leave the strong count what it was and call no deleter; a = a and
\* a = std::move(a) leave a as it was, and after a = b the pointer of a is
\* the pointer of b, which is the one a had whenever the two stored the same.
C36_AssignmentWithinFamilyKeepsShare ==
    [][\A i, k \in RefSlots :
         /\ (refs[i].live /\ refs[i].rc # NULL /\ refs[k].live /\ refs[k].rc = refs[i].rc
                 /\ RefCopyAssign(i, k)) =>
                /\ refs'[i].ptr = refs[k].ptr /\ refs'[i].rc = refs[i].rc
                /\ i = k => refs' = refs
                /\ refs'[k] = refs[k]
                /\ blk' = blk /\ obj' = obj /\ uaf' = uaf
         /\ (i = k /\ refs[i].live /\ refs[i].rc # NULL /\ RefMoveAssign(i, k)) =>
                /\ refs' = refs
                /\ blk' = blk /\ obj' = obj /\ uaf' = uaf]_vars

\* An owner and an alias of it, on one control block with different
\* pointers, and nothing else on that block: either can be assigned from
\* the other or from itself.
C36_Witness ==
    \E i, k \in RefSlots :
        /\ i # k /\ refs[i].live /\ refs[k].live
        /\ refs[i].rc # NULL /\ refs[k].rc = refs[i].rc
        /\ Valid(refs[i]) /\ Valid(refs[k]) /\ _Raw(refs[i]) # _Raw(refs[k])
        /\ blk[refs[i].rc].strongs = 2
        /\ ENABLED RefCopyAssign(i, k) /\ ENABLED RefMoveAssign(i, i)

\* ---------------------------------------------------------------- C37
\* C37: Ref<M> r(newPtr, owner) with an empty owner writes no counter and
\* allocates nothing; r stores newPtr with no control block and no deleter
\* and reports RefCount() = 0.  A Ref without control block has no deleter,
\* and its destructor calls no deleter and deallocates no control block.
C37_AliasOfEmptyOwnsNothing ==
    /\ [](\A i \in RefSlots :
            (refs[i].live /\ refs[i].rc = NULL) =>
                /\ refs[i].del = NoDeleter
                /\ \A g \in Garbage : _RefCount(refs[i], World, g) = 0)
    /\ [][\A i, k \in RefSlots :
            /\ \A q \in Addrs \cup Subs :
                 (~refs[i].live /\ refs[k] = EmptyHandle /\ RefAlias(i, k, q)) =>
                     /\ refs'[i] = Handle(q, NULL, NoDeleter)
                     /\ refs'[k] = EmptyHandle
                     /\ blk' = blk /\ obj' = obj /\ uaf' = uaf
            /\ (refs[i].live /\ refs[i].rc = NULL /\ Valid(refs[i]) /\ RefDtor(i)) =>
                     /\ ~refs'[i].live
                     /\ blk' = blk /\ obj' = obj /\ uaf' = uaf]_vars

\* An alias of an empty owner that stores the address of an object another
\* Ref owns alone.
C37_Witness ==
    \E i, k \in RefSlots :
        /\ refs[i].live /\ refs[i].rc = NULL /\ Valid(refs[i])
        /\ refs[k].live /\ refs[k].rc # NULL /\ _Raw(refs[k]) = _Raw(refs[i])
        /\ blk[refs[k].rc].strongs = 1
        /\ ENABLED RefDtor(i)
====
